---- MODULE Spec2Model ----
(***************************************************************************)
(* Content Manager MCP server: the content search engine.                  *)
(*                                                                         *)
(* searchNotes / searchByTags / searchByDateRange (utils/searchUtils.ts)   *)
(* over readContentFile / findContentFiles (utils/fileUtils.ts).           *)
(*                                                                         *)
(* Conventions of the model                                                *)
(*  - a JavaScript string is a tuple of one-character strings;             *)
(*  - a file's text is the tuple of its lines (text.split('\n'));          *)
(*  - a score is an integer number of tenths: 0.4 is 4, 1.0 is 10, and the *)
(*    additions of the code are exact decimal additions;                   *)
(*  - a Date is an integer number of ticks.                                *)
(***************************************************************************)
EXTENDS Integers, Sequences, FiniteSets, TLC

VARIABLES
    fs,             \* the directory: path -> file on disk
    pc,             \* position of the running query
    op,             \* which operation runs: "searchNotes", "searchByTags", "searchByDateRange"
    args,           \* its arguments
    filePaths,      \* const filePaths = await findContentFiles(directory)
    idx,            \* position of the for..of loop in filePaths (next to load)
    content,        \* readContentFile: const content = await readFile(...)
    files,          \* searchNotes: const files: ContentFile[]
    matchingFiles,  \* searchByTags / searchByDateRange: const matchingFiles
    loaded,         \* history: the ContentFiles readContentFile returned, in order
    failed,         \* history: the paths whose readContentFile threw, in order
    fuseResults,    \* performFuzzySearch: const fuseResults = fuse.search(...)
    result,         \* the value the operation's promise resolves to
    stats,          \* getDirectoryStats: const stats
    matterCache,    \* gray-matter: the contents whose parse threw (matter.cache)
    markdown,       \* the content argument of the last markdown tool call
    tool,           \* the markdown tool called last
    headings,       \* what extractHeadings returned
    toc,            \* what generateTableOfContents returned
    extracted,      \* what extractFrontmatter returned
    html,           \* what sanitizeHtml returned
    second,         \* a second query running at the same time: its own locals
    call,           \* the CallTool request being handled and its response
    proc            \* the server process: signals, close, exit

\* the state of the markdown tools, of getDirectoryStats and of the server
toolVars == <<stats, matterCache, markdown, tool, headings, toc, extracted, html, second,
              call, proc>>

vars == <<fs, pc, op, args, filePaths, idx, content, files, matchingFiles, loaded, failed,
          fuseResults, result, stats, matterCache, markdown, tool, headings, toc, extracted,
          html, second, call, proc>>

---------------------------------------------------------------------------
(* Bounds of the model *)

NumFiles == 3           \* directory entries
MaxResultsArg == 3      \* largest maxResults a caller passes
MaxTime == 3            \* largest tick of a Date argument

Paths == 1..NumFiles

---------------------------------------------------------------------------
(* JavaScript strings *)

\* String.prototype.toLowerCase, on the letters the model's texts use
LowerChar(c) ==
    CASE c = "A" -> "a"
      [] c = "B" -> "b"
      [] c = "C" -> "c"
      [] OTHER -> c

ToLowerCase(s) == [i \in 1..Len(s) |-> LowerChar(s[i])]

\* String.prototype.includes
Includes(s, q) ==
    \E i \in 0..(Len(s) - Len(q)) : SubSeq(s, i + 1, i + Len(q)) = q

\* String.prototype.endsWith / startsWith
EndsWith(s, suffix) ==
    /\ Len(s) >= Len(suffix)
    /\ SubSeq(s, Len(s) - Len(suffix) + 1, Len(s)) = suffix

StartsWith(s, prefix) ==
    /\ Len(s) >= Len(prefix)
    /\ SubSeq(s, 1, Len(prefix)) = prefix

RECURSIVE TrimStart(_)
TrimStart(s) == IF Len(s) > 0 /\ s[1] = " " THEN TrimStart(Tail(s)) ELSE s

RECURSIVE TrimEnd(_)
TrimEnd(s) ==
    IF Len(s) > 0 /\ s[Len(s)] = " " THEN TrimEnd(SubSeq(s, 1, Len(s) - 1)) ELSE s

\* String.prototype.trim
Trim(s) == TrimEnd(TrimStart(s))

\* String.prototype.indexOf for one character, 1-based, 0 when absent
IndexOf(s, c) ==
    IF \E i \in 1..Len(s) : s[i] = c
    THEN CHOOSE i \in 1..Len(s) : s[i] = c /\ \A j \in 1..(i - 1) : s[j] # c
    ELSE 0

\* String.prototype.split on one character
RECURSIVE Split(_, _)
Split(s, c) ==
    LET i == IndexOf(s, c)
    IN  IF i = 0 THEN <<s>>
        ELSE <<SubSeq(s, 1, i - 1)>> \o Split(SubSeq(s, i + 1, Len(s)), c)

IsDigit(c) == c \in {"0", "1", "2", "3", "4", "5", "6", "7", "8", "9"}

\* Array.prototype.slice(0, n)
Slice(seq, n) == SubSeq(seq, 1, IF Len(seq) < n THEN Len(seq) ELSE n)

RECURSIVE SumLen(_)
SumLen(lines) == IF lines = <<>> THEN 0 ELSE Len(Head(lines)) + SumLen(Tail(lines))

---------------------------------------------------------------------------
(* gray-matter: matter(content), for the YAML subset the model's files use *)

Delim == <<"-", "-", "-">>

\* a frontmatter value; the three fields keep every value of one shape
StringValue(s) == [type |-> "string", v |-> s, items |-> <<>>]
NumberValue(s) == [type |-> "number", v |-> s, items |-> <<>>]
NullValue == [type |-> "null", v |-> <<>>, items |-> <<>>]
ArrayValue(a) == [type |-> "array", v |-> <<>>, items |-> a]
BoolValue(s) == [type |-> "boolean", v |-> s, items |-> <<>>]
DateValue(s) == [type |-> "date", v |-> s, items |-> <<>>]

\* a YAML timestamp of the form dddd-dd-dd
IsDateText(raw) ==
    /\ Len(raw) = 10
    /\ raw[5] = "-" /\ raw[8] = "-"
    /\ \A i \in {1, 2, 3, 4, 6, 7, 9, 10} : IsDigit(raw[i])

\* a YAML float of the form digits.digits
IsFloatScalar(raw) ==
    \E d \in 2..(Len(raw) - 1) :
        /\ raw[d] = "."
        /\ \A i \in (1..Len(raw)) \ {d} : IsDigit(raw[i])

\* a YAML scalar: null when empty, '~' or 'null', a string when quoted, a
\* boolean, an integer when all digits, a float, a Date for a timestamp, else
\* a plain string
YamlScalar(raw) ==
    IF raw = <<>> \/ raw = <<"~">> \/ raw = <<"n", "u", "l", "l">> THEN NullValue
    ELSE IF Len(raw) >= 2 /\ raw[1] = raw[Len(raw)] /\ raw[1] \in {"\"", "'"}
    THEN StringValue(SubSeq(raw, 2, Len(raw) - 1))
    ELSE IF raw = <<"t", "r", "u", "e">> \/ raw = <<"f", "a", "l", "s", "e">>
    THEN BoolValue(raw)
    ELSE IF \A i \in 1..Len(raw) : IsDigit(raw[i]) THEN NumberValue(raw)
    ELSE IF IsFloatScalar(raw) THEN NumberValue(raw)
    ELSE IF IsDateText(raw) THEN DateValue(raw)
    ELSE StringValue(raw)

\* YamlValue that reads a flow sequence as one scalar
YamlValueScalarOnly(raw) == YamlScalar(raw)

\* a YAML value: a flow sequence [a, b] is an array of scalars
YamlValue(raw) ==
    IF Len(raw) >= 2 /\ raw[1] = "[" /\ raw[Len(raw)] = "]"
    THEN LET parts == Split(SubSeq(raw, 2, Len(raw) - 1), ",")
         IN  ArrayValue([i \in 1..Len(parts) |-> YamlScalar(Trim(parts[i]))])
    ELSE YamlScalar(raw)

\* the block's lines "key: value", in order (Object.entries order)
RECURSIVE YamlEntries(_)
YamlEntries(lines) ==
    IF lines = <<>> THEN <<>>
    ELSE LET line == Head(lines)
             i == IndexOf(line, ":")
         IN  IF i = 0 THEN YamlEntries(Tail(lines))
             ELSE <<[key |-> Trim(SubSeq(line, 1, i - 1)),
                     value |-> YamlValue(Trim(SubSeq(line, i + 1, Len(line))))]>>
                  \o YamlEntries(Tail(lines))

\* index of the line that closes the block opened on line 1, 0 when none does
CloseIndex(text) ==
    IF \E j \in 2..Len(text) : StartsWith(text[j], Delim)
    THEN CHOOSE j \in 2..Len(text) :
            /\ StartsWith(text[j], Delim)
            /\ \A k \in 2..(j - 1) : ~StartsWith(text[k], Delim)
    ELSE 0

\* split('\n') of the empty string is one empty line
LinesOrEmpty(lines) == IF lines = <<>> THEN << <<>> >> ELSE lines

\* the lines of the block matter hands to the YAML engine: up to the closing
\* delimiter, or the whole rest when nothing closes the block
MatterBlock(text) ==
    IF Len(text) >= 1 /\ text[1] = Delim
    THEN LET c == CloseIndex(text)
         IN  IF c = 0 THEN Tail(text) ELSE SubSeq(text, 2, c - 1)
    ELSE <<>>

\* a line of the block that the YAML engine reads: not blank, not a comment
YamlLine(line) == TrimStart(line) # <<>> /\ TrimStart(line)[1] # "#"

\* the YAML engine throws a YAMLException: a flow sequence that is opened and
\* not closed, or a line without ':' in a block that has "key: value" lines
YamlThrows(lines) ==
    \E i \in 1..Len(lines) :
        /\ YamlLine(lines[i])
        /\ LET c == IndexOf(lines[i], ":")
               raw == Trim(SubSeq(lines[i], c + 1, Len(lines[i])))
           IN  IF c = 0
               THEN \E j \in 1..Len(lines) :
                        YamlLine(lines[j]) /\ IndexOf(lines[j], ":") # 0
               ELSE raw # <<>> /\ raw[1] = "[" /\ raw[Len(raw)] # "]"

\* matter(content) throws when it parses this text (it does not catch the
\* exception of the YAML engine)
MatterThrows(text) == YamlThrows(MatterBlock(text))

\* what matter(content) returns for a text whose parse threw before: the
\* file it cached ahead of the parse, data {} and the content untouched
MatterCached(text) == [data |-> <<>>, content |-> LinesOrEmpty(text)]

\* matter(content): {data, content}
Matter(text) ==
    IF MatterThrows(text) THEN MatterCached(text)
    ELSE IF Len(text) >= 1 /\ text[1] = Delim
    THEN LET c == CloseIndex(text)
         IN  IF c = 0
             THEN [data |-> YamlEntries(Tail(text)), content |-> << <<>> >>]
             ELSE [data |-> YamlEntries(SubSeq(text, 2, c - 1)),
                   content |-> LinesOrEmpty(
                       IF Len(text[c]) > Len(Delim)
                       THEN <<SubSeq(text[c], Len(Delim) + 1, Len(text[c]))>>
                            \o SubSeq(text, c + 1, Len(text))
                       ELSE SubSeq(text, c + 1, Len(text)))]
    ELSE [data |-> <<>>, content |-> text]

---------------------------------------------------------------------------
(* The directory on disk *)

\* a directory entry: mode "rw" (readable), "none" (no read permission), "dir"
\* (a directory of that name) or "absent" (no such entry); mtime and size are
\* what stat reports
DiskFile(name, text, mtime, mode) ==
    [name |-> name, text |-> text, mtime |-> mtime, mode |-> mode]

NoFile == DiskFile(<<>>, <<>>, 0, "absent")

\* stats.size: the bytes of the text, one per character and per line break
Size(text) == SumLen(text) + (IF Len(text) > 0 THEN Len(text) - 1 ELSE 0)

ExtMd == <<".", "m", "d">>
ExtMarkdown == <<".", "m", "a", "r", "k", "d", "o", "w", "n">>
ExtTxt == <<".", "t", "x", "t">>
ExtMdx == <<".", "m", "d", "x">>

\* findContentFiles: the default extensions parameter
DefaultExtensions == <<ExtMd, ExtMarkdown, ExtTxt, ExtMdx>>

\* the '*' of a glob pattern matches no name that begins with '.' (the options
\* passed do not set dot)
Hidden(name) == Len(name) >= 1 /\ name[1] = "."

\* glob('**/*' + ext, { cwd, absolute }): the existing entries, files and
\* directories alike (the options do not set nodir), whose name does not begin
\* with '.' and ends with ext, in directory order
RECURSIVE GlobFrom(_, _, _)
GlobFrom(disk, ext, p) ==
    IF p > NumFiles THEN <<>>
    ELSE (IF /\ disk[p].mode # "absent"
             /\ ~Hidden(disk[p].name)
             /\ EndsWith(disk[p].name, ext)
          THEN <<p>> ELSE <<>>)
         \o GlobFrom(disk, ext, p + 1)

Glob(disk, ext) == GlobFrom(disk, ext, 1)

\* [...new Set(files)]: first occurrences, in order
RECURSIVE Dedup(_)
Dedup(seq) ==
    IF seq = <<>> THEN <<>>
    ELSE LET front == Dedup(SubSeq(seq, 1, Len(seq) - 1))
             x == seq[Len(seq)]
         IN  IF \E i \in 1..Len(front) : front[i] = x THEN front ELSE Append(front, x)

RECURSIVE GlobAll(_, _)
GlobAll(disk, extensions) ==
    IF extensions = <<>> THEN <<>>
    ELSE Glob(disk, Head(extensions)) \o GlobAll(disk, Tail(extensions))

FindContentFiles(disk, extensions) == Dedup(GlobAll(disk, extensions))

\* readFile(filePath, 'utf-8') and stat(filePath) resolve (otherwise they reject)
CanReadFile(disk, p) == disk[p].mode = "rw"
CanStat(disk, p) == disk[p].mode # "absent"

\* a path findContentFiles returns: the directory entry and its basename
PathOf(disk, p) == [path |-> p, name |-> disk[p].name]

\* readContentFile once both awaits resolved: text is what readFile returned,
\* disk is the directory at the time of stat
\* filePath.endsWith('.md') || filePath.endsWith('.markdown')
ParsesFrontmatter(name) == EndsWith(name, ExtMd) \/ EndsWith(name, ExtMarkdown)

ReadContentFile(disk, filePath, text) ==
    LET isMd == ParsesFrontmatter(filePath.name)
        parsed == Matter(text)
    IN  [path |-> filePath.path,
         name |-> filePath.name,
         content |-> IF isMd THEN parsed.content ELSE LinesOrEmpty(text),
         hasFrontmatter |-> isMd,
         frontmatter |-> IF isMd THEN parsed.data ELSE <<>>,
         lastModified |-> disk[filePath.path].mtime,
         size |-> Size(disk[filePath.path].text)]

---------------------------------------------------------------------------
(* searchUtils.ts: the exact strategy *)

\* the score contributions, in tenths
FilenameScore == 4
LineScore == 1
FrontmatterScore == 2
\* the score 1.0, in tenths
One == 10
\* matches kept per result
MaxMatches == 5

FilenamePrefix == <<"F", "i", "l", "e", "n", "a", "m", "e", ":", " ">>
LinePrefix == <<"L", "i", "n", "e", " ">>
ColonSpace == <<":", " ">>

DigitChars == <<"0", "1", "2", "3", "4", "5", "6", "7", "8", "9">>

\* String(n) for a natural number
RECURSIVE NumberToString(_)
NumberToString(n) ==
    IF n < 10 THEN <<DigitChars[n + 1]>>
    ELSE NumberToString(n \div 10) \o <<DigitChars[(n % 10) + 1]>>

\* the filename test: its match entries and its score
FilenameMatches(file, queryLower) ==
    IF Includes(ToLowerCase(file.name), queryLower)
    THEN << FilenamePrefix \o file.name >>
    ELSE <<>>

\* the loop over contentLines, from line i on
RECURSIVE LineMatchesFrom(_, _, _)
LineMatchesFrom(contentLines, queryLower, i) ==
    IF i > Len(contentLines) THEN <<>>
    ELSE LET line == contentLines[i]
         IN  (IF line # <<>> /\ Includes(ToLowerCase(line), queryLower)
              THEN << LinePrefix \o NumberToString(i) \o ColonSpace \o Trim(line) >>
              ELSE <<>>)
             \o LineMatchesFrom(contentLines, queryLower, i + 1)

LineMatches(file, queryLower) == LineMatchesFrom(file.content, queryLower, 1)

\* the loop over Object.entries(file.frontmatter)
RECURSIVE EntryMatches(_, _)
EntryMatches(entries, queryLower) ==
    IF entries = <<>> THEN <<>>
    ELSE LET e == Head(entries)
         IN  (IF e.value.type = "string" /\ Includes(ToLowerCase(e.value.v), queryLower)
              THEN << e.key \o ColonSpace \o e.value.v >>
              ELSE <<>>)
             \o EntryMatches(Tail(entries), queryLower)

FrontmatterMatches(file, queryLower) ==
    IF file.hasFrontmatter THEN EntryMatches(file.frontmatter, queryLower) ELSE <<>>

\* const resultFile = includeContent ? file : { ...file, content: '' }
ResultFile(file, includeContent) ==
    IF includeContent THEN file ELSE [file EXCEPT !.content = << <<>> >>]

Min(a, b) == IF a < b THEN a ELSE b

\* ExactScore with the filename weighted like a frontmatter entry
ExactScoreNameAsEntry(file, queryLower) ==
    Len(FilenameMatches(file, queryLower)) * FrontmatterScore
    + Len(LineMatches(file, queryLower)) * LineScore
    + Len(FrontmatterMatches(file, queryLower)) * FrontmatterScore

\* the score accumulated for one file
ExactScore(file, queryLower) ==
    Len(FilenameMatches(file, queryLower)) * FilenameScore
    + Len(LineMatches(file, queryLower)) * LineScore
    + Len(FrontmatterMatches(file, queryLower)) * FrontmatterScore

\* the matches accumulated for one file
ExactMatches(file, queryLower) ==
    FilenameMatches(file, queryLower)
    \o LineMatches(file, queryLower)
    \o FrontmatterMatches(file, queryLower)

\* ExactResult without Math.min(score, 1)
ExactResultUncapped(file, queryLower, includeContent) ==
    [file |-> ResultFile(file, includeContent),
     score |-> ExactScore(file, queryLower),
     matches |-> Slice(ExactMatches(file, queryLower), MaxMatches)]

\* ExactResult without matches.slice(0, 5)
ExactResultUnsliced(file, queryLower, includeContent) ==
    [file |-> ResultFile(file, includeContent),
     score |-> Min(ExactScore(file, queryLower), One),
     matches |-> ExactMatches(file, queryLower)]

\* the SearchResult pushed for one file with matches.length > 0
ExactResult(file, queryLower, includeContent) ==
    [file |-> ResultFile(file, includeContent),
     score |-> Min(ExactScore(file, queryLower), One),
     matches |-> Slice(ExactMatches(file, queryLower), MaxMatches)]

\* ExactResults without the test matches.length > 0
RECURSIVE ExactResultsUnfiltered(_, _, _)
ExactResultsUnfiltered(fileList, queryLower, includeContent) ==
    IF fileList = <<>> THEN <<>>
    ELSE << ExactResult(Head(fileList), queryLower, includeContent) >>
         \o ExactResultsUnfiltered(Tail(fileList), queryLower, includeContent)

\* the loop over files: results, in the order of files
RECURSIVE ExactResults(_, _, _)
ExactResults(fileList, queryLower, includeContent) ==
    IF fileList = <<>> THEN <<>>
    ELSE (IF Len(ExactMatches(Head(fileList), queryLower)) > 0
          THEN << ExactResult(Head(fileList), queryLower, includeContent) >>
          ELSE <<>>)
         \o ExactResults(Tail(fileList), queryLower, includeContent)

\* InsertDesc that places x before the elements of equal key (an unstable sort)
RECURSIVE InsertDescBeforeEqual(_, _)
InsertDescBeforeEqual(seq, x) ==
    IF seq = <<>> THEN <<x>>
    ELSE IF Head(seq).key - x.key <= 0 THEN <<x>> \o seq
    ELSE <<Head(seq)>> \o InsertDescBeforeEqual(Tail(seq), x)

\* place the keyed x in the sorted seq, behind every element whose key is not
\* smaller (Array.prototype.sort is stable)
RECURSIVE InsertDesc(_, _)
InsertDesc(seq, x) ==
    IF seq = <<>> THEN <<x>>
    ELSE IF Head(seq).key - x.key < 0 THEN <<x>> \o seq
    ELSE <<Head(seq)>> \o InsertDesc(Tail(seq), x)

\* Array.prototype.sort((a, b) => b.key - a.key)
RECURSIVE SortDesc(_)
SortDesc(seq) ==
    IF seq = <<>> THEN <<>>
    ELSE InsertDesc(SortDesc(SubSeq(seq, 1, Len(seq) - 1)), seq[Len(seq)])

\* SortResults without the sort
SortResultsUnsorted(results) == results

\* results.sort((a, b) => b.score - a.score)
SortResults(results) ==
    LET keyed == SortDesc([i \in 1..Len(results) |->
                              [key |-> results[i].score, item |-> results[i]]])
    IN  [i \in 1..Len(keyed) |-> keyed[i].item]

PerformExactSearch(fileList, query, maxResults, includeContent) ==
    Slice(SortResults(ExactResults(fileList, ToLowerCase(query), includeContent)),
          maxResults)

---------------------------------------------------------------------------
(* searchUtils.ts: the fuzzy strategy (fuse.js) *)

\* extractMatches: value.length > 100 is cut to 100 characters and '...'
MaxSnippet == 100
Ellipsis == <<".", ".", ".">>

KeyName == <<"n", "a", "m", "e">>
KeyContent == <<"c", "o", "n", "t", "e", "n", "t">>
KeyTitle == <<"f", "r", "o", "n", "t", "m", "a", "t", "t", "e", "r", ".", "t", "i", "t", "l", "e">>
KeyTags == <<"f", "r", "o", "n", "t", "m", "a", "t", "t", "e", "r", ".", "t", "a", "g", "s">>

KeyOfTitle == <<"t", "i", "t", "l", "e">>
KeyOfTags == <<"t", "a", "g", "s">>

\* lines.join('\n')
RECURSIVE Join(_)
Join(lines) ==
    IF lines = <<>> THEN <<>>
    ELSE IF Len(lines) = 1 THEN lines[1]
    ELSE lines[1] \o <<"\n">> \o Join(Tail(lines))

\* frontmatter[key] for an object with this key
HasKey(entries, key) == \E i \in 1..Len(entries) : entries[i].key = key
Lookup(entries, key) ==
    entries[CHOOSE i \in 1..Len(entries) :
                /\ entries[i].key = key
                /\ \A j \in (i + 1)..Len(entries) : entries[j].key # key]

\* the strings fuse.js reads under one frontmatter key: a string or number
\* value, or those elements of an array
RECURSIVE ScalarStrings(_)
ScalarStrings(values) ==
    IF values = <<>> THEN <<>>
    ELSE (IF Head(values).type \in {"string", "number"} THEN <<Head(values).v>> ELSE <<>>)
         \o ScalarStrings(Tail(values))

FuseValues(file, key) ==
    IF file.hasFrontmatter /\ HasKey(file.frontmatter, key)
    THEN LET value == Lookup(file.frontmatter, key).value
         IN  IF value.type = "array" THEN ScalarStrings(value.items)
             ELSE ScalarStrings(<<value>>)
    ELSE <<>>

\* the {key, value} pairs of the four fuseOptions.keys for one file
FuseFields(file) ==
    << [key |-> KeyName, value |-> file.name],
       [key |-> KeyContent, value |-> Join(file.content)] >>
    \o [i \in 1..Len(FuseValues(file, KeyOfTitle)) |->
           [key |-> KeyTitle, value |-> FuseValues(file, KeyOfTitle)[i]]]
    \o [i \in 1..Len(FuseValues(file, KeyOfTags)) |->
           [key |-> KeyTags, value |-> FuseValues(file, KeyOfTags)[i]]]

\* what the matcher may decide for a list of n files: for each file no match
\* (NoMatch) or a raw distance score in tenths, 0 the perfect match; a matched
\* file is reported with each of its fields as a match
NoMatch == 0 - 1
RawScores == {0, 3, 10}
FuseDecisions(n) == [raw : [1..n -> RawScores \cup {NoMatch}]]

\* fuse.search(query, { limit }): the matched files, best (lowest) raw score
\* first and by index among equals, cut to limit
FuseSearch(fileList, decision, limit) ==
    LET hits == SelectSeq([i \in 1..Len(fileList) |-> i],
                          LAMBDA i : decision.raw[i] # NoMatch)
        keyed == SortDesc([k \in 1..Len(hits) |->
                    [key |-> 0 - decision.raw[hits[k]], item |-> hits[k]]])
    IN  Slice([k \in 1..Len(keyed) |->
                 LET i == keyed[k].item
                 IN  [item |-> fileList[i],
                      refIndex |-> i,
                      score |-> decision.raw[i],
                      matches |-> FuseFields(fileList[i])]],
              limit)

\* extractMatches
ExtractMatches(fuseMatches) ==
    Slice([i \in 1..Len(fuseMatches) |->
              LET value == fuseMatches[i].value
                  truncated == IF Len(value) > MaxSnippet
                               THEN SubSeq(value, 1, MaxSnippet) \o Ellipsis
                               ELSE value
              IN  fuseMatches[i].key \o ColonSpace \o truncated],
          MaxMatches)

\* FuzzyResult with the matcher's raw score passed on as it is
FuzzyResultRaw(fuseResult, includeContent) ==
    [file |-> ResultFile(fuseResult.item, includeContent),
     score |-> fuseResult.score,
     matches |-> ExtractMatches(fuseResult.matches)]

\* the SearchResult mapped from one fuse result
FuzzyResult(fuseResult, includeContent) ==
    [file |-> ResultFile(fuseResult.item, includeContent),
     score |-> One - fuseResult.score,
     matches |-> ExtractMatches(fuseResult.matches)]

PerformFuzzySearch(fileList, decision, maxResults, includeContent) ==
    LET found == FuseSearch(fileList, decision, maxResults)
    IN  [k \in 1..Len(found) |-> FuzzyResult(found[k], includeContent)]

---------------------------------------------------------------------------
(* searchUtils.ts: the tag filter and the date-range filter *)

\* JavaScript truthiness of a frontmatter value
Truthy(value) ==
    CASE value.type = "string" -> value.v # <<>>
      [] value.type = "number" -> \E i \in 1..Len(value.v) : value.v[i] # "0"
      [] value.type = "null" -> FALSE
      [] value.type = "boolean" -> value.v = <<"t", "r", "u", "e">>
      [] OTHER -> TRUE

\* fileTag => typeof fileTag === 'string' && fileTag.toLowerCase() === tag.toLowerCase()
TagEquals(fileTag, tag) ==
    fileTag.type = "string" /\ ToLowerCase(fileTag.v) = ToLowerCase(tag)

\* the body of the try block of searchByTags: whether the file is pushed
HasMatchingTag(file, tags) ==
    /\ file.hasFrontmatter
    /\ HasKey(file.frontmatter, KeyOfTags)
    /\ Truthy(Lookup(file.frontmatter, KeyOfTags).value)
    /\ LET value == Lookup(file.frontmatter, KeyOfTags).value
           fileTags == IF value.type = "array" THEN value.items ELSE <<value>>
       IN  \E t \in 1..Len(tags) : \E i \in 1..Len(fileTags) :
              TagEquals(fileTags[i], tags[t])

\* InDateRange with the end boundary excluded
InDateRangeExclusive(file, startDate, endDate) ==
    file.lastModified >= startDate /\ file.lastModified < endDate

\* file.lastModified >= startDate && file.lastModified <= endDate
InDateRange(file, startDate, endDate) ==
    file.lastModified >= startDate /\ file.lastModified <= endDate

\* SortByLastModified without the sort
SortByLastModifiedUnsorted(fileList) == fileList

\* matchingFiles.sort((a, b) => b.lastModified.getTime() - a.lastModified.getTime())
SortByLastModified(fileList) ==
    LET keyed == SortDesc([i \in 1..Len(fileList) |->
                              [key |-> fileList[i].lastModified, item |-> fileList[i]]])
    IN  [i \in 1..Len(keyed) |-> keyed[i].item]

---------------------------------------------------------------------------
(* The operations, one action per step between two awaits *)

\* the markdown tools before any call
NoToc == [isNull |-> TRUE, text |-> <<>>]
NoExtract == [frontmatter |-> <<>>, content |-> <<>>]

\* render_markdown has not run
NoHtml == [marked |-> <<>>, sanitized |-> <<>>]

\* getDirectoryStats: the stats object before findContentFiles resolved
NoStats == [totalFiles |-> 0, totalSize |-> 0, fileTypes |-> <<>>]

\* arguments of the three operations, in one record shape
NoArgs ==
    [query |-> <<>>, includeContent |-> TRUE, maxResults |-> 0, fuzzy |-> FALSE,
     tags |-> <<>>, startDate |-> 0, endDate |-> 0, extensions |-> <<>>]

\* no second query runs
NoSecond ==
    [pc |-> "idle", op |-> "none", args |-> NoArgs, filePaths |-> <<>>, idx |-> 0,
     content |-> <<>>, matchingFiles |-> <<>>, loaded |-> <<>>, failed |-> <<>>,
     result |-> <<>>]

\* no CallTool request is being handled
NoCall == [name |-> "", arguments |-> <<>>, state |-> "none", isError |-> FALSE, text |-> <<>>]

\* the process after main(): the server is connected, nothing was signalled
Running == [state |-> "running", event |-> "none", closed |-> FALSE, exitCode |-> 0 - 1]

\* NoteSearchOptionsSchema: query.min(1), maxResults.int().positive()
ValidOptions(options) == Len(options.query) >= 1 /\ options.maxResults >= 1

\* maxResults || 10 and includeContent || true
DefaultMaxResults == 10
OrDefault(maxResults) == IF maxResults = 0 THEN DefaultMaxResults ELSE maxResults
OrTrue(includeContent) == includeContent \/ TRUE

\* Returns with the content of every file assigned in place (file.content = '')
\* where the code copies the file
ReturnsInPlace(fileList, matching) ==
    /\ files' = [k \in 1..Len(fileList) |-> ResultFile(fileList[k], FALSE)]
    /\ matchingFiles' = [k \in 1..Len(matching) |-> ResultFile(matching[k], FALSE)]
    /\ fuseResults' = <<>>
    /\ result' = IF op = "searchNotes"
                 THEN PerformExactSearch(files', args.query, OrDefault(args.maxResults), TRUE)
                 ELSE SortByLastModified(matchingFiles')

\* the return statement behind the loop: searchNotes ranks files, which it
\* leaves as they are; the filters sort matchingFiles, the array itself, and
\* return it
Returns(fileList, matching) ==
    CASE op = "searchNotes" /\ args.fuzzy ->
            \E decision \in FuseDecisions(Len(fileList)) :
                /\ fuseResults' = FuseSearch(fileList, decision, OrDefault(args.maxResults))
                /\ result' = [k \in 1..Len(fuseResults') |->
                                 FuzzyResult(fuseResults'[k], OrTrue(args.includeContent))]
                /\ files' = fileList
                /\ matchingFiles' = matching
      [] op = "searchNotes" /\ ~args.fuzzy ->
            /\ fuseResults' = <<>>
            /\ result' = PerformExactSearch(fileList, args.query, OrDefault(args.maxResults),
                                            OrTrue(args.includeContent))
            /\ files' = fileList
            /\ matchingFiles' = matching
      [] OTHER ->
            /\ fuseResults' = <<>>
            /\ result' = SortByLastModified(matching)
            /\ files' = fileList
            /\ matchingFiles' = result'

\* the end of one iteration of for (const filePath of filePaths): the next
\* file, or the return statement behind the loop
NextIteration(paths, i, fileList, matching, history) ==
    /\ loaded' = history
    /\ content' = <<>>
    /\ idx' = i
    /\ IF i <= Len(paths)
       THEN /\ pc' = "readFile"
            /\ files' = fileList
            /\ matchingFiles' = matching
            /\ UNCHANGED <<fuseResults, result>>
       ELSE /\ pc' = "done"
            /\ Returns(fileList, matching)

\* searchNotes(options): parseWithSchema, then await findContentFiles
SearchNotes(options) ==
    /\ pc = "idle"
    /\ op' = "searchNotes"
    /\ args' = [NoArgs EXCEPT !.query = options.query,
                              !.includeContent = options.includeContent,
                              !.maxResults = options.maxResults,
                              !.fuzzy = options.fuzzy]
    /\ pc' = IF ValidOptions(options) THEN "findContentFiles" ELSE "thrown"
    /\ UNCHANGED <<fs, filePaths, idx, content, files, matchingFiles, loaded, failed,
                   fuseResults, result>>
    /\ UNCHANGED toolVars

\* searchByTags(directory, tags): await findContentFiles
SearchByTags(tags) ==
    /\ pc = "idle"
    /\ op' = "searchByTags"
    /\ args' = [NoArgs EXCEPT !.tags = tags]
    /\ pc' = "findContentFiles"
    /\ UNCHANGED <<fs, filePaths, idx, content, files, matchingFiles, loaded, failed,
                   fuseResults, result>>
    /\ UNCHANGED toolVars

\* searchByDateRange(directory, startDate, endDate): await findContentFiles
SearchByDateRange(startDate, endDate) ==
    /\ pc = "idle"
    /\ op' = "searchByDateRange"
    /\ args' = [NoArgs EXCEPT !.startDate = startDate, !.endDate = endDate]
    /\ pc' = "findContentFiles"
    /\ UNCHANGED <<fs, filePaths, idx, content, files, matchingFiles, loaded, failed,
                   fuseResults, result>>
    /\ UNCHANGED toolVars

\* findContentFiles resolves; the loop starts
FindContentFilesResolves ==
    /\ pc = "findContentFiles"
    /\ filePaths' = LET found == FindContentFiles(fs, DefaultExtensions)
                    IN  [i \in 1..Len(found) |-> PathOf(fs, found[i])]
    /\ NextIteration(filePaths', 1, <<>>, <<>>, <<>>)
    /\ UNCHANGED <<fs, op, args, failed>>
    /\ UNCHANGED toolVars

\* readContentFile: await readFile resolves
ReadFileResolves ==
    /\ pc = "readFile"
    /\ CanReadFile(fs, filePaths[idx].path)
    /\ content' = fs[filePaths[idx].path].text
    /\ pc' = "stat"
    /\ UNCHANGED <<fs, op, args, filePaths, idx, files, matchingFiles, loaded, failed,
                   fuseResults, result>>
    /\ UNCHANGED toolVars

\* ReadFileRejects without the try/catch: the rejection leaves the operation
ReadFileRejectsUncaught ==
    /\ pc = "readFile"
    /\ ~CanReadFile(fs, filePaths[idx].path)
    /\ pc' = "thrown"
    /\ failed' = Append(failed, filePaths[idx].path)
    /\ UNCHANGED <<fs, op, args, filePaths, idx, content, files, matchingFiles, loaded,
                   fuseResults, result>>
    /\ UNCHANGED toolVars

\* readContentFile: await readFile rejects; catch, console.warn, continue
ReadFileRejects ==
    /\ pc = "readFile"
    /\ ~CanReadFile(fs, filePaths[idx].path)
    /\ NextIteration(filePaths, idx + 1, files, matchingFiles, loaded)
    /\ failed' = Append(failed, filePaths[idx].path)
    /\ UNCHANGED <<fs, op, args, filePaths>>
    /\ UNCHANGED toolVars

\* readContentFile: matter(content) throws for this file: its frontmatter is
\* parsed, the YAML engine rejects the block, and no earlier parse of the same
\* content left a cached file
ParseThrows(filePath, text) ==
    /\ ParsesFrontmatter(filePath.name)
    /\ MatterThrows(text)
    /\ text \notin matterCache

\* the ContentFile readContentFile returns when stat resolves now
Loading == ReadContentFile(fs, filePaths[idx], content)

\* whether the loop body pushes the file to matchingFiles
Pushes(file) ==
    CASE op = "searchByTags" -> HasMatchingTag(file, args.tags)
      [] op = "searchByDateRange" -> InDateRange(file, args.startDate, args.endDate)
      [] OTHER -> FALSE

\* readContentFile: await stat resolves; the rest of the loop body
StatResolves ==
    /\ pc = "stat"
    /\ CanStat(fs, filePaths[idx].path)
    /\ ~ParseThrows(filePaths[idx], content)
    /\ NextIteration(filePaths, idx + 1,
                     IF op = "searchNotes" THEN Append(files, Loading) ELSE files,
                     IF Pushes(Loading) THEN Append(matchingFiles, Loading)
                     ELSE matchingFiles,
                     Append(loaded, Loading))
    /\ UNCHANGED <<fs, op, args, filePaths, failed>>
    /\ UNCHANGED toolVars

\* readContentFile: await stat rejects; catch, console.warn, continue
StatRejects ==
    /\ pc = "stat"
    /\ ~CanStat(fs, filePaths[idx].path)
    /\ NextIteration(filePaths, idx + 1, files, matchingFiles, loaded)
    /\ failed' = Append(failed, filePaths[idx].path)
    /\ UNCHANGED <<fs, op, args, filePaths>>
    /\ UNCHANGED toolVars

\* readContentFile: stat resolves and matter(content) throws; catch,
\* console.warn, continue
MatterRejects ==
    /\ pc = "stat"
    /\ CanStat(fs, filePaths[idx].path)
    /\ ParseThrows(filePaths[idx], content)
    /\ matterCache' = matterCache \cup {content}
    /\ NextIteration(filePaths, idx + 1, files, matchingFiles, loaded)
    /\ failed' = Append(failed, filePaths[idx].path)
    /\ UNCHANGED <<fs, op, args, filePaths>>
    /\ UNCHANGED <<stats, markdown, tool, headings, toc, extracted, html, second, call, proc>>

\* read_content_file: readContentFile(filePath) for one path
ReadContentFileCall(p) ==
    /\ pc = "idle"
    /\ op' = "readContentFile"
    /\ filePaths' = << [path |-> p, name |-> fs[p].name] >>
    /\ idx' = 1
    /\ pc' = "one.readFile"
    /\ UNCHANGED <<fs, args, content, files, matchingFiles, loaded, failed,
                   fuseResults, result>>
    /\ UNCHANGED toolVars

\* await readFile resolves
ReadOneResolves ==
    /\ pc = "one.readFile"
    /\ CanReadFile(fs, filePaths[idx].path)
    /\ content' = fs[filePaths[idx].path].text
    /\ pc' = "one.stat"
    /\ UNCHANGED <<fs, op, args, filePaths, idx, files, matchingFiles, loaded, failed,
                   fuseResults, result>>
    /\ UNCHANGED toolVars

\* await readFile rejects: readContentFile rejects
ReadOneRejects ==
    /\ pc = "one.readFile"
    /\ ~CanReadFile(fs, filePaths[idx].path)
    /\ pc' = "thrown"
    /\ failed' = Append(failed, filePaths[idx].path)
    /\ UNCHANGED <<fs, op, args, filePaths, idx, content, files, matchingFiles, loaded,
                   fuseResults, result>>
    /\ UNCHANGED toolVars

\* await stat resolves and matter(content) returns: the ContentFile
StatOneResolves ==
    /\ pc = "one.stat"
    /\ CanStat(fs, filePaths[idx].path)
    /\ ~ParseThrows(filePaths[idx], content)
    /\ loaded' = <<Loading>>
    /\ result' = <<Loading>>
    /\ pc' = "done"
    /\ UNCHANGED <<fs, op, args, filePaths, idx, content, files, matchingFiles, failed,
                   fuseResults>>
    /\ UNCHANGED toolVars

\* await stat rejects: readContentFile rejects
StatOneRejects ==
    /\ pc = "one.stat"
    /\ ~CanStat(fs, filePaths[idx].path)
    /\ pc' = "thrown"
    /\ failed' = Append(failed, filePaths[idx].path)
    /\ UNCHANGED <<fs, op, args, filePaths, idx, content, files, matchingFiles, loaded,
                   fuseResults, result>>
    /\ UNCHANGED toolVars

\* stat resolves and matter(content) throws: readContentFile rejects
MatterOneRejects ==
    /\ pc = "one.stat"
    /\ CanStat(fs, filePaths[idx].path)
    /\ ParseThrows(filePaths[idx], content)
    /\ matterCache' = matterCache \cup {content}
    /\ pc' = "thrown"
    /\ failed' = Append(failed, filePaths[idx].path)
    /\ UNCHANGED <<fs, op, args, filePaths, idx, content, files, matchingFiles, loaded,
                   fuseResults, result>>
    /\ UNCHANGED <<stats, markdown, tool, headings, toc, extracted, html, second, call, proc>>

\* the caller has the result (or the error); the next call may start
Return ==
    /\ pc \in {"done", "thrown"}
    /\ pc' = "idle"
    /\ op' = "none"
    /\ args' = NoArgs
    /\ filePaths' = <<>>
    /\ idx' = 0
    /\ content' = <<>>
    /\ files' = <<>>
    /\ matchingFiles' = <<>>
    /\ loaded' = <<>>
    /\ failed' = <<>>
    /\ fuseResults' = <<>>
    /\ result' = <<>>
    /\ stats' = NoStats
    /\ UNCHANGED <<fs, matterCache, markdown, tool, headings, toc, extracted, html, second,
                   call, proc>>

\* another process removes a file
Unlink(p) ==
    /\ fs[p].mode # "absent"
    /\ fs' = [fs EXCEPT ![p] = NoFile]
    /\ UNCHANGED <<pc, op, args, filePaths, idx, content, files, matchingFiles, loaded, failed,
                   fuseResults, result>>
    /\ UNCHANGED toolVars

\* the steps of every operation while each await resolves
Load ==
    \/ FindContentFilesResolves
    \/ ReadFileResolves
    \/ StatResolves
    \/ Return

\* the steps of every operation, in a directory that other processes change
Step ==
    \/ Load
    \/ ReadFileRejects
    \/ StatRejects
    \/ \E p \in Paths : Unlink(p)

InitQuery ==
    /\ pc = "idle"
    /\ op = "none"
    /\ args = NoArgs
    /\ filePaths = <<>>
    /\ idx = 0
    /\ content = <<>>
    /\ files = <<>>
    /\ matchingFiles = <<>>
    /\ loaded = <<>>
    /\ failed = <<>>
    /\ fuseResults = <<>>
    /\ result = <<>>
    /\ stats = NoStats
    /\ matterCache = {}
    /\ markdown = <<>>
    /\ tool = "none"
    /\ headings = <<>>
    /\ toc = NoToc
    /\ extracted = NoExtract
    /\ html = NoHtml
    /\ second = NoSecond
    /\ call = NoCall
    /\ proc = Running

---------------------------------------------------------------------------
(* tools/index.ts: find_content_files *)

\* find_content_files: the handler calls findContentFiles(directory, extensions)
FindContentFilesHandler(extensions) ==
    /\ pc = "idle"
    /\ op' = "findContentFiles"
    /\ args' = [NoArgs EXCEPT !.extensions = extensions]
    /\ pc' = "find.glob"
    /\ UNCHANGED <<fs, filePaths, idx, content, files, matchingFiles, loaded, failed,
                   fuseResults, result>>
    /\ UNCHANGED toolVars

\* the globs of all patterns resolved: the handler has the list of paths
FindGlobResolves ==
    /\ pc = "find.glob"
    /\ filePaths' = LET found == FindContentFiles(fs, args.extensions)
                    IN  [i \in 1..Len(found) |-> PathOf(fs, found[i])]
    /\ result' = filePaths'
    /\ pc' = "done"
    /\ UNCHANGED <<fs, op, args, idx, content, files, matchingFiles, loaded, failed,
                   fuseResults>>
    /\ UNCHANGED toolVars

---------------------------------------------------------------------------
(* fileUtils.ts: getDirectoryStats, one action per step between two awaits *)

\* path.extname: from the last '.' of the name on, '' when there is none or
\* when it is the first character
ExtName(name) ==
    LET dots == { i \in 2..Len(name) : name[i] = "." }
    IN  IF dots = {} THEN <<>>
        ELSE SubSeq(name, CHOOSE i \in dots : \A j \in dots : j <= i, Len(name))

\* stats.fileTypes[ext] = (stats.fileTypes[ext] || 0) + 1
CountType(fileTypes, ext) ==
    IF \E i \in 1..Len(fileTypes) : fileTypes[i].ext = ext
    THEN [i \in 1..Len(fileTypes) |->
             IF fileTypes[i].ext = ext
             THEN [fileTypes[i] EXCEPT !.count = @ + 1]
             ELSE fileTypes[i]]
    ELSE Append(fileTypes, [ext |-> ext, count |-> 1])

\* getDirectoryStats(directory): await findContentFiles
GetDirectoryStats ==
    /\ pc = "idle"
    /\ op' = "getDirectoryStats"
    /\ pc' = "stats.findContentFiles"
    /\ UNCHANGED <<fs, args, filePaths, idx, content, files, matchingFiles, loaded, failed,
                   fuseResults, result>>
    /\ UNCHANGED toolVars

\* findContentFiles resolves: totalFiles is set, the loop starts
StatsFindContentFilesResolves ==
    /\ pc = "stats.findContentFiles"
    /\ filePaths' = LET found == FindContentFiles(fs, DefaultExtensions)
                    IN  [i \in 1..Len(found) |-> PathOf(fs, found[i])]
    /\ stats' = [NoStats EXCEPT !.totalFiles = Len(filePaths')]
    /\ idx' = 1
    /\ pc' = IF Len(filePaths') >= 1 THEN "stats.stat" ELSE "done"
    /\ UNCHANGED <<fs, op, args, content, files, matchingFiles, loaded, failed,
                   fuseResults, result>>
    /\ UNCHANGED <<matterCache, markdown, tool, headings, toc, extracted, html, second, call,
                   proc>>

\* await stat(file) resolves: the size and the extension are counted
StatsStatResolves ==
    /\ pc = "stats.stat"
    /\ CanStat(fs, filePaths[idx].path)
    /\ stats' = [stats EXCEPT
                   !.totalSize = @ + Size(fs[filePaths[idx].path].text),
                   !.fileTypes = CountType(@, ExtName(filePaths[idx].name))]
    /\ idx' = idx + 1
    /\ pc' = IF idx + 1 <= Len(filePaths) THEN "stats.stat" ELSE "done"
    /\ UNCHANGED <<fs, op, args, filePaths, content, files, matchingFiles, loaded, failed,
                   fuseResults, result>>
    /\ UNCHANGED <<matterCache, markdown, tool, headings, toc, extracted, html, second, call,
                   proc>>

\* await stat(file) rejects: nothing catches it, getDirectoryStats rejects
StatsStatRejects ==
    /\ pc = "stats.stat"
    /\ ~CanStat(fs, filePaths[idx].path)
    /\ pc' = "thrown"
    /\ UNCHANGED <<fs, op, args, filePaths, idx, content, files, matchingFiles, loaded,
                   failed, fuseResults, result>>
    /\ UNCHANGED toolVars

---------------------------------------------------------------------------
(* markdownUtils.ts: extractFrontmatter and parseSimpleYaml *)

\* \s* up to the end of a line
Blank(line) == \A i \in 1..Len(line) : line[i] = " "

\* a line '---\s*'
DelimLine(line) == StartsWith(line, Delim) /\ Blank(SubSeq(line, Len(Delim) + 1, Len(line)))

\* the last line the \s* of '^---\s*\n' can end: the blank lines that follow
\* line from, as long as a line break follows
RECURSIVE LastBlankRun(_, _)
LastBlankRun(lines, from) ==
    IF from + 1 <= Len(lines) - 1 /\ Blank(lines[from + 1])
    THEN LastBlankRun(lines, from + 1)
    ELSE from

\* /^---\s*\n([\s\S]*?)\n---\s*\n/ on the text: the pairs <<k, j>> where the
\* opening ends with line k and the closing '---' is line j; the regex engine
\* takes the longest opening first and then the nearest closing line
BlockMatches(lines) ==
    IF Len(lines) >= 2 /\ DelimLine(lines[1])
    THEN { kj \in (1..LastBlankRun(lines, 1)) \X (3..(Len(lines) - 1)) :
              DelimLine(lines[kj[2]]) /\ kj[2] >= kj[1] + 2 }
    ELSE {}

BlockMatch(lines) ==
    CHOOSE kj \in BlockMatches(lines) :
        \A other \in BlockMatches(lines) :
            \/ other[1] < kj[1]
            \/ other[1] = kj[1] /\ other[2] >= kj[2]

\* a digit string without its leading zeros
RECURSIVE StripLeadingZeros(_)
StripLeadingZeros(digits) ==
    IF Len(digits) > 1 /\ digits[1] = "0" THEN StripLeadingZeros(Tail(digits)) ELSE digits

RECURSIVE StripTrailingZeros(_)
StripTrailingZeros(digits) ==
    IF Len(digits) > 0 /\ digits[Len(digits)] = "0"
    THEN StripTrailingZeros(SubSeq(digits, 1, Len(digits) - 1))
    ELSE digits

\* /^\d+$/ and /^\d+\.\d+$/
AllDigits(s) == Len(s) >= 1 /\ \A i \in 1..Len(s) : IsDigit(s[i])
DigitsDotDigits(s) ==
    LET d == IndexOf(s, ".")
    IN  /\ d # 0
        /\ AllDigits(SubSeq(s, 1, d - 1))
        /\ AllDigits(SubSeq(s, d + 1, Len(s)))

\* parseInt(value, 10) and parseFloat(value), as the decimal text of the number
ParseInt(s) == StripLeadingZeros(s)
ParseFloat(s) ==
    LET d == IndexOf(s, ".")
        whole == StripLeadingZeros(SubSeq(s, 1, d - 1))
        fraction == StripTrailingZeros(SubSeq(s, d + 1, Len(s)))
    IN  IF fraction = <<>> THEN whole ELSE whole \o <<".">> \o fraction

\* parseSimpleYaml: the type inference on the trimmed text behind the ':'
InferType(value) ==
    IF value = <<"t", "r", "u", "e">> \/ value = <<"f", "a", "l", "s", "e">>
    THEN BoolValue(value)
    ELSE IF value = <<"n", "u", "l", "l">> THEN NullValue
    ELSE IF AllDigits(value) THEN NumberValue(ParseInt(value))
    ELSE IF DigitsDotDigits(value) THEN NumberValue(ParseFloat(value))
    ELSE IF \/ StartsWith(value, <<"\"">>) /\ EndsWith(value, <<"\"">>)
            \/ StartsWith(value, <<"'">>) /\ EndsWith(value, <<"'">>)
    THEN StringValue(SubSeq(value, 2, Len(value) - 1))
    ELSE StringValue(value)

\* result[key] = value: a key that is there keeps its place
SetEntry(entries, key, value) ==
    IF HasKey(entries, key)
    THEN [i \in 1..Len(entries) |->
             IF entries[i].key = key THEN [key |-> key, value |-> value] ELSE entries[i]]
    ELSE Append(entries, [key |-> key, value |-> value])

\* parseSimpleYaml: the loop over the lines, result being the object so far
RECURSIVE ParseLines(_, _)
ParseLines(lines, entries) ==
    IF lines = <<>> THEN entries
    ELSE LET trimmed == Trim(Head(lines))
             colonIndex == IndexOf(trimmed, ":")
         IN  IF trimmed = <<>> \/ trimmed[1] = "#" \/ colonIndex = 0
             THEN ParseLines(Tail(lines), entries)
             ELSE ParseLines(Tail(lines),
                     SetEntry(entries,
                              Trim(SubSeq(trimmed, 1, colonIndex - 1)),
                              InferType(Trim(SubSeq(trimmed, colonIndex + 1, Len(trimmed))))))

ParseSimpleYaml(lines) == ParseLines(lines, <<>>)

\* ExtractFrontmatter for which a block nothing closes reaches to the end of
\* the text
ExtractFrontmatterUnclosed(lines) ==
    IF Len(lines) >= 2 /\ DelimLine(lines[1])
    THEN [frontmatter |-> ParseSimpleYaml(Tail(lines)), content |-> << <<>> >>]
    ELSE [frontmatter |-> <<>>, content |-> lines]

\* ExtractFrontmatter for which the match needs no line break at its end, so
\* that the \s* behind the closing '---' also takes the spaces the next line
\* begins with
ExtractFrontmatterNoLineBreak(lines) ==
    IF BlockMatches(lines) = {}
    THEN [frontmatter |-> <<>>, content |-> lines]
    ELSE LET kj == BlockMatch(lines)
             m == LastBlankRun(lines, kj[2])
         IN  [frontmatter |-> ParseSimpleYaml(SubSeq(lines, kj[1] + 1, kj[2] - 1)),
              content |-> <<TrimStart(lines[m + 1])>> \o SubSeq(lines, m + 2, Len(lines))]

\* extractFrontmatter(content): the content behind match[0] begins behind the
\* blank lines that follow the closing line
ExtractFrontmatter(lines) ==
    IF BlockMatches(lines) = {}
    THEN [frontmatter |-> <<>>, content |-> lines]
    ELSE LET kj == BlockMatch(lines)
             m == LastBlankRun(lines, kj[2])
         IN  [frontmatter |-> ParseSimpleYaml(SubSeq(lines, kj[1] + 1, kj[2] - 1)),
              content |-> SubSeq(lines, m + 1, Len(lines))]

\* extract_frontmatter: the handler calls extractFrontmatter(content)
ExtractFrontmatterHandler(text) ==
    /\ pc = "idle"
    /\ tool = "none"
    /\ markdown' = text
    /\ tool' = "extract_frontmatter"
    /\ extracted' = ExtractFrontmatter(text)
    /\ headings' = <<>>
    /\ toc' = NoToc
    /\ UNCHANGED <<fs, pc, op, args, filePaths, idx, content, files, matchingFiles, loaded,
                   failed, fuseResults, result, stats, matterCache, html, second, call, proc>>

---------------------------------------------------------------------------
(* markdownUtils.ts: extractHeadings and generateTableOfContents *)

\* the '#' characters a line begins with
RECURSIVE HashCount(_)
HashCount(line) ==
    IF Len(line) > 0 /\ line[1] = "#" THEN 1 + HashCount(Tail(line)) ELSE 0

\* \w after toLowerCase
WordChars ==
    { "a", "b", "c", "d", "e", "f", "g", "h", "i", "j", "k", "l", "m", "n", "o", "p", "q",
      "r", "s", "t", "u", "v", "w", "x", "y", "z", "_",
      "0", "1", "2", "3", "4", "5", "6", "7", "8", "9" }

\* .replace(/[^\w\s-]/g, '')
DeleteOthers(s) == SelectSeq(s, LAMBDA ch : ch \in WordChars \cup {" ", "-"})

\* HyphenateRuns that replaces every whitespace character by a hyphen
RECURSIVE HyphenateEach(_)
HyphenateEach(s) ==
    IF s = <<>> THEN <<>>
    ELSE <<IF s[1] = " " THEN "-" ELSE s[1]>> \o HyphenateEach(Tail(s))

\* .replace(/\s+/g, '-')
RECURSIVE HyphenateRuns(_)
HyphenateRuns(s) ==
    IF s = <<>> THEN <<>>
    ELSE IF s[1] = " " THEN <<"-">> \o HyphenateRuns(TrimStart(s))
    ELSE <<s[1]>> \o HyphenateRuns(Tail(s))

\* the id of a heading text
Slug(text) == HyphenateRuns(DeleteOthers(ToLowerCase(text)))

Heading(level, text) == [level |-> level, text |-> text, id |-> Slug(text)]

\* the first line from i on that is not blank, 0 when all are
RECURSIVE NextTextLine(_, _)
NextTextLine(lines, i) ==
    IF i > Len(lines) THEN 0
    ELSE IF ~Blank(lines[i]) THEN i
    ELSE NextTextLine(lines, i + 1)

\* the loop of headingRegex.exec over /^(#{1,6})\s+(.+)$/gm, from line i on:
\*  - a line must begin with 1 to 6 '#' and whitespace behind them;
\*  - \s+ runs over line breaks, so when only whitespace follows the '#' on
\*    the line, (.+) is the next line that is not blank, and the search goes
\*    on behind that line;
\*  - when no text follows at all, (.+) is the last whitespace character in
\*    front of a line end, if \s+ keeps one before it
RECURSIVE HeadingsFrom(_, _)
HeadingsFrom(lines, i) ==
    IF i > Len(lines) THEN <<>>
    ELSE LET level == HashCount(lines[i])
             rest == SubSeq(lines[i], level + 1, Len(lines[i]))
             j == NextTextLine(lines, i + 1)
         IN  IF level < 1 \/ level > 6 THEN HeadingsFrom(lines, i + 1)
             ELSE IF ~Blank(rest)
             THEN IF rest[1] = " "
                  THEN <<Heading(level, Trim(rest))>> \o HeadingsFrom(lines, i + 1)
                  ELSE HeadingsFrom(lines, i + 1)
             ELSE IF j # 0
             THEN <<Heading(level, Trim(lines[j]))>> \o HeadingsFrom(lines, j + 1)
             ELSE IF Len(rest) >= 2 \/ \E l \in (i + 1)..Len(lines) : Len(lines[l]) >= 1
             THEN <<Heading(level, <<>>)>>
             ELSE <<>>

\* extractHeadings(content)
ExtractHeadings(lines) == HeadingsFrom(lines, 1)

TocTitle ==
    <<"#", "#", " ", "T", "a", "b", "l", "e", " ", "o", "f", " ",
      "C", "o", "n", "t", "e", "n", "t", "s">>

\* '  '.repeat(n)
RECURSIVE Indent(_)
Indent(n) == IF n <= 0 THEN <<>> ELSE <<" ", " ">> \o Indent(n - 1)

\* TocEntry indented by level units
TocEntryByLevel(heading) ==
    Indent(heading.level) \o <<"-", " ", "[">> \o heading.text
    \o <<"]", "(", "#">> \o heading.id \o <<")">>

\* `${indent}- [${text}](#${id})`
TocEntry(heading) ==
    Indent(heading.level - 1) \o <<"-", " ", "[">> \o heading.text
    \o <<"]", "(", "#">> \o heading.id \o <<")">>

\* generateTableOfContents(content): null, or the lines of the table
GenerateTableOfContents(lines) ==
    LET found == ExtractHeadings(lines)
    IN  IF Len(found) = 0 THEN NoToc
        ELSE [isNull |-> FALSE,
              text |-> <<TocTitle, <<>>>> \o [k \in 1..Len(found) |-> TocEntry(found[k])]]

\* extract_headings: the handler calls extractHeadings(content)
ExtractHeadingsHandler(text) ==
    /\ pc = "idle"
    /\ tool = "none"
    /\ markdown' = text
    /\ tool' = "extract_headings"
    /\ headings' = ExtractHeadings(text)
    /\ toc' = NoToc
    /\ extracted' = NoExtract
    /\ UNCHANGED <<fs, pc, op, args, filePaths, idx, content, files, matchingFiles, loaded,
                   failed, fuseResults, result, stats, matterCache, html, second, call, proc>>

\* generate_table_of_contents: the handler calls generateTableOfContents(content)
GenerateTableOfContentsHandler(text) ==
    /\ pc = "idle"
    /\ tool = "none"
    /\ markdown' = text
    /\ tool' = "generate_table_of_contents"
    /\ toc' = GenerateTableOfContents(text)
    /\ headings' = <<>>
    /\ extracted' = NoExtract
    /\ UNCHANGED <<fs, pc, op, args, filePaths, idx, content, files, matchingFiles, loaded,
                   failed, fuseResults, result, stats, matterCache, html, second, call, proc>>

---------------------------------------------------------------------------
(* markdownUtils.ts: sanitizeHtml, the last step of renderMarkdown *)

\* \s and \w under the i flag, ["']
SpaceChars == { " ", "\n", "\t" }

IsWordChar(c) == LowerChar(c) \in WordChars

QuoteChars == { "\"", "'" }

\* the literal lit matches s at position i, letters compared under the i flag
LiteralAt(s, i, lit) ==
    /\ i + Len(lit) - 1 <= Len(s)
    /\ ToLowerCase(SubSeq(s, i, i + Len(lit) - 1)) = lit

ScriptOpen == <<"<", "s", "c", "r", "i", "p", "t">>

ScriptClose == <<"<", "/", "s", "c", "r", "i", "p", "t", ">">>

JavascriptProtocol == <<"j", "a", "v", "a", "s", "c", "r", "i", "p", "t", ":">>

\* the first position from i on where the literal matches, Len(s) + 1 if none
RECURSIVE FirstLiteral(_, _, _)
FirstLiteral(s, i, lit) ==
    IF i > Len(s) THEN Len(s) + 1
    ELSE IF LiteralAt(s, i, lit) THEN i
    ELSE FirstLiteral(s, i + 1, lit)

\* /<script\b[^<]*(?:(?!<\/script>)<[^<]*)*<\/script>/i tried at position i:
\* the position behind the match, 0 without a match. After '<script' and the
\* word boundary the expression runs over every character that does not
\* begin '</script>', so a match ends with the first '</script>' behind it.
ScriptMatchEnd(s, i) ==
    IF /\ LiteralAt(s, i, ScriptOpen)
       /\ i + 7 <= Len(s)
       /\ ~IsWordChar(s[i + 7])
    THEN LET j == FirstLiteral(s, i + 7, ScriptClose)
         IN  IF j <= Len(s) THEN j + 9 ELSE 0
    ELSE 0

\* the first position from i on that holds no character of the set
RECURSIVE SkipChars(_, _, _)
SkipChars(s, i, set) ==
    IF i <= Len(s) /\ s[i] \in set THEN SkipChars(s, i + 1, set) ELSE i

RECURSIVE SkipWord(_, _)
SkipWord(s, i) ==
    IF i <= Len(s) /\ IsWordChar(s[i]) THEN SkipWord(s, i + 1) ELSE i

RECURSIVE SkipUnquoted(_, _)
SkipUnquoted(s, i) ==
    IF i <= Len(s) /\ s[i] \notin QuoteChars THEN SkipUnquoted(s, i + 1) ELSE i

\* /\s*on\w+\s*=\s*["'][^"']*["']/i tried at position i: the position behind
\* the match, 0 without a match. Every quantifier is followed by a character
\* it cannot itself match, so the greedy run is the only one to try.
OnAttributeMatchEnd(s, i) ==
    LET a == SkipChars(s, i, SpaceChars)
        b == SkipWord(s, a + 2)
        c == SkipChars(s, b, SpaceChars)
        d == SkipChars(s, c + 1, SpaceChars)
        e == SkipUnquoted(s, d + 1)
    IN  IF /\ LiteralAt(s, a, <<"o", "n">>)
           /\ b > a + 2
           /\ c <= Len(s) /\ s[c] = "="
           /\ d <= Len(s) /\ s[d] \in QuoteChars
           /\ e <= Len(s)
        THEN e + 1
        ELSE 0

\* html.replace(/<script...<\/script>/gi, ''): one pass from left to right,
\* the scan goes on behind each match
RECURSIVE RemoveScripts(_, _)
RemoveScripts(s, i) ==
    IF i > Len(s) THEN <<>>
    ELSE IF ScriptMatchEnd(s, i) > 0 THEN RemoveScripts(s, ScriptMatchEnd(s, i))
    ELSE <<s[i]>> \o RemoveScripts(s, i + 1)

\* html.replace(/\s*on\w+\s*=\s*["'][^"']*["']/gi, '')
RECURSIVE RemoveOnAttributes(_, _)
RemoveOnAttributes(s, i) ==
    IF i > Len(s) THEN <<>>
    ELSE IF OnAttributeMatchEnd(s, i) > 0
         THEN RemoveOnAttributes(s, OnAttributeMatchEnd(s, i))
    ELSE <<s[i]>> \o RemoveOnAttributes(s, i + 1)

\* html.replace(/javascript:/gi, '')
RECURSIVE RemoveJavascript(_, _)
RemoveJavascript(s, i) ==
    IF i > Len(s) THEN <<>>
    ELSE IF LiteralAt(s, i, JavascriptProtocol) THEN RemoveJavascript(s, i + 11)
    ELSE <<s[i]>> \o RemoveJavascript(s, i + 1)

\* sanitizeHtml(html): the three replacements, each applied once
SanitizeHtml(s) ==
    RemoveJavascript(RemoveOnAttributes(RemoveScripts(s, 1), 1), 1)

\* render_markdown with sanitizeHtml enabled: marked leaves inline HTML and
\* text as they are, so its output is any string; the handler returns
\* sanitizeHtml(html)
RenderMarkdownSanitizes(marked) ==
    /\ pc = "idle"
    /\ tool = "none"
    /\ tool' = "render_markdown"
    /\ html' = [marked |-> marked, sanitized |-> SanitizeHtml(marked)]
    /\ UNCHANGED <<fs, pc, op, args, filePaths, idx, content, files, matchingFiles, loaded,
                   failed, fuseResults, result, stats, matterCache, markdown, headings, toc,
                   extracted, second, call, proc>>

\* the caller has the answer of the markdown tool; the next call may start
ToolReturns ==
    /\ tool # "none"
    /\ markdown' = <<>>
    /\ tool' = "none"
    /\ headings' = <<>>
    /\ toc' = NoToc
    /\ extracted' = NoExtract
    /\ html' = NoHtml
    /\ UNCHANGED <<fs, pc, op, args, filePaths, idx, content, files, matchingFiles, loaded,
                   failed, fuseResults, result, stats, matterCache, second, call, proc>>

---------------------------------------------------------------------------
(* index.ts: the CallTool request handler *)

\* the keys of the tools object the model calls
ToolNames == {"search_notes", "search_by_tags", "search_by_date_range", "get_directory_stats"}

\* properties every object literal inherits from Object.prototype
ObjectPrototypeNames == {"toString", "constructor", "hasOwnProperty", "__proto__"}

\* name in tools: own and inherited properties alike
InTools(name) == name \in ToolNames \cup ObjectPrototypeNames

\* Date.parse of a string that is no date (NaN)
InvalidDate == 0 - 1

\* the arguments object of a request; maxResults is given in halves, so that
\* 1.5 can be passed
NoArguments ==
    [query |-> <<>>, maxResultsHalves |-> 2, tags |-> <<>>, startDate |-> 0, endDate |-> 0]

\* XxxArgsSchema.parse(args) returns: SearchNotesArgsSchema (query.min(1),
\* maxResults.int().positive()), SearchByTagsArgsSchema (tags.min(1)),
\* SearchByDateRangeArgsSchema (!isNaN(Date.parse(val)))
SchemaAccepts(name, arguments) ==
    CASE name = "search_notes" ->
            /\ Len(arguments.query) >= 1
            /\ arguments.maxResultsHalves % 2 = 0
            /\ arguments.maxResultsHalves > 0
      [] name = "search_by_tags" -> Len(arguments.tags) >= 1
      [] name = "search_by_date_range" ->
            arguments.startDate # InvalidDate /\ arguments.endDate # InvalidDate
      [] OTHER -> TRUE

\* error.message of what the handler threw
ZodMessage == "ZodError"
NotAFunction == "tool.handler is not a function"
RejectionMessage == "ENOENT"

\* the isError result of the catch block
ErrorResult(request, message) ==
    [name |-> request.name, arguments |-> request.arguments, state |-> "responded",
     isError |-> TRUE,
     text |-> <<"Error executing tool \"", request.name, "\": ", message>>]

\* throw new Error(`Unknown tool: ${name}`): the request is rejected
UnknownTool(request) ==
    [name |-> request.name, arguments |-> request.arguments, state |-> "rejected",
     isError |-> TRUE, text |-> <<"Unknown tool: ", request.name>>]

\* the operation the handler of a registered tool starts once its schema
\* accepted the arguments
Starts(request) ==
    /\ call' = [name |-> request.name, arguments |-> request.arguments,
                state |-> "running", isError |-> FALSE, text |-> <<>>]
    /\ op' = CASE request.name = "search_notes" -> "searchNotes"
               [] request.name = "search_by_tags" -> "searchByTags"
               [] request.name = "search_by_date_range" -> "searchByDateRange"
               [] OTHER -> "getDirectoryStats"
    /\ args' = [NoArgs EXCEPT !.query = request.arguments.query,
                              !.maxResults = request.arguments.maxResultsHalves \div 2,
                              !.tags = request.arguments.tags,
                              !.startDate = request.arguments.startDate,
                              !.endDate = request.arguments.endDate]
    /\ pc' = IF request.name = "get_directory_stats" THEN "stats.findContentFiles"
             ELSE "findContentFiles"

\* the handler of CallToolRequestSchema up to its first await
CallTool(request) ==
    /\ proc.state = "running"
    /\ call.state = "none"
    /\ pc = "idle"
    /\ IF request.name = "" \/ ~InTools(request.name)
       THEN call' = UnknownTool(request) /\ UNCHANGED <<pc, op, args>>
       ELSE IF request.name \notin ToolNames
       THEN call' = ErrorResult(request, NotAFunction) /\ UNCHANGED <<pc, op, args>>
       ELSE IF ~SchemaAccepts(request.name, request.arguments)
       THEN call' = ErrorResult(request, ZodMessage) /\ UNCHANGED <<pc, op, args>>
       ELSE Starts(request)
    /\ UNCHANGED <<fs, filePaths, idx, content, files, matchingFiles, loaded, failed,
                   fuseResults, result, stats, matterCache, markdown, tool, headings, toc,
                   extracted, html, second, proc>>

\* await tool.handler(args) settles: the result is returned, or the catch
\* block returns the isError result
CallToolResponds ==
    /\ call.state = "running"
    /\ pc \in {"done", "thrown"}
    /\ call' = IF pc = "thrown" THEN ErrorResult(call, RejectionMessage)
               ELSE [call EXCEPT !.state = "responded"]
    /\ pc' = "idle"
    /\ op' = "none"
    /\ args' = NoArgs
    /\ filePaths' = <<>>
    /\ idx' = 0
    /\ content' = <<>>
    /\ files' = <<>>
    /\ matchingFiles' = <<>>
    /\ loaded' = <<>>
    /\ failed' = <<>>
    /\ fuseResults' = <<>>
    /\ result' = <<>>
    /\ stats' = NoStats
    /\ UNCHANGED <<fs, matterCache, markdown, tool, headings, toc, extracted, html, second,
                   proc>>

\* the response is sent; the server handles the next request
NextRequest ==
    /\ call.state \in {"responded", "rejected"}
    /\ call' = NoCall
    /\ UNCHANGED <<fs, pc, op, args, filePaths, idx, content, files, matchingFiles, loaded,
                   failed, fuseResults, result, stats, matterCache, markdown, tool, headings,
                   toc, extracted, html, second, proc>>

---------------------------------------------------------------------------
(* The files and the arguments the model draws from *)

Nm(base, ext) == base \o ext

\* notes of a small directory: one with frontmatter and many matching lines,
\* one plain text file
NoteLong ==
    DiskFile(Nm(<<"a", "b">>, ExtMd),
             << <<"-", "-", "-">>,
                <<"t", "i", "t", "l", "e", ":", " ", "A", "b">>,
                <<"t", "a", "g", "s", ":", " ", "[", "a", "b", ",", " ", "c", ",", " ", "B", "]">>,
                <<"-", "-", "-">>,
                <<"a", "b">>,
                <<" ", "x", "A", "B", " ">>,
                <<"c">>,
                <<"a", "b", "a", "b">>,
                <<"b", " ", "a", "b">>,
                <<"A", "B">>,
                <<"a", "b", "c">>,
                <<"c", "a", "b">> >>,
             2, "rw")
NotePlain ==
    DiskFile(Nm(<<"c">>, ExtTxt),
             << <<"a", "b", " ", "c">> >>,
             1, "rw")

NotesPool == {NoteLong, NotePlain}

\* notes for the exact strategy: matches in the filename, in body lines and in
\* string, array and number frontmatter entries; equal and capped scores
ExactMixed ==
    DiskFile(Nm(<<"a", "b">>, ExtMd),
             << <<"-", "-", "-">>,
                <<"t", "i", "t", "l", "e", ":", " ", "x", " ", "A", "B">>,
                <<"t", "a", "g", "s", ":", " ", "[", "a", "b", ",", " ", "c", "]">>,
                <<"c", "o", "u", "n", "t", ":", " ", "1", "2">>,
                <<"-", "-", "-">>,
                <<" ", " ", "A", "b", " ", " ">>,
                <<"c">> >>,
             1, "rw")
ExactLines ==
    DiskFile(Nm(<<"c">>, ExtTxt),
             << <<"a", "b">>,
                <<"A", "b">>,
                <<"a", "B">>,
                <<"A", "B">>,
                <<"x", "a", "b">>,
                <<"a", "b", "x">>,
                <<"b", " ", "a", "b">> >>,
             2, "rw")
ExactNameOnly ==
    DiskFile(Nm(<<"a", "b">>, ExtTxt),
             << <<"c">> >>,
             3, "rw")
ExactEntries ==
    DiskFile(Nm(<<"c">>, ExtMd),
             << <<"-", "-", "-">>,
                <<"a", "u", "t", "h", "o", "r", ":", " ", "a", "b">>,
                <<"n", "o", "t", "e", ":", " ", "b", " ", "A", "B">>,
                <<"-", "-", "-">>,
                <<"c">> >>,
             1, "rw")
ExactCapped ==
    DiskFile(Nm(<<"a", "b">>, ExtMarkdown),
             << <<"a", "b">>,
                <<"A", "b">>,
                <<"a", "B">>,
                <<"A", "B">>,
                <<"x", "a", "b">>,
                <<"a", "b", "x">>,
                <<"b", " ", "a", "b">> >>,
             2, "rw")

ExactPool == {ExactMixed, ExactLines, ExactNameOnly, ExactEntries, ExactCapped}

\* notes for the filters: tags as an array, as one string, as a number, as an
\* empty string, absent, and in a file that is not markdown; one note without
\* read permission
TagsArray ==
    DiskFile(Nm(<<"a">>, ExtMd),
             << <<"-", "-", "-">>,
                <<"t", "a", "g", "s", ":", " ", "[", "a", "b", ",", " ", "c", "]">>,
                <<"-", "-", "-">>,
                <<"x">> >>,
             1, "rw")
TagsScalar ==
    DiskFile(Nm(<<"b">>, ExtMd),
             << <<"-", "-", "-">>,
                <<"t", "a", "g", "s", ":", " ", "A", "b">>,
                <<"-", "-", "-">>,
                <<"x">> >>,
             2, "rw")
TagsNumber ==
    DiskFile(Nm(<<"c">>, ExtMd),
             << <<"-", "-", "-">>,
                <<"t", "a", "g", "s", ":", " ", "[", "1", "2", ",", " ", "x", "]">>,
                <<"-", "-", "-">> >>,
             2, "rw")
TagsEmpty ==
    DiskFile(Nm(<<"d">>, ExtMd),
             << <<"-", "-", "-">>,
                <<"t", "a", "g", "s", ":", " ", "\"", "\"">>,
                <<"-", "-", "-">>,
                <<"x">> >>,
             3, "rw")
TagsInText ==
    DiskFile(Nm(<<"e">>, ExtTxt),
             << <<"-", "-", "-">>,
                <<"t", "a", "g", "s", ":", " ", "a", "b">>,
                <<"-", "-", "-">>,
                <<"x">> >>,
             0, "rw")
TagsLocked ==
    DiskFile(Nm(<<"f">>, ExtMd),
             << <<"-", "-", "-">>,
                <<"t", "a", "g", "s", ":", " ", "a", "b">>,
                <<"-", "-", "-">>,
                <<"x">> >>,
             1, "none")

FilterPool == {TagsArray, TagsScalar, TagsNumber, TagsEmpty, TagsInText, TagsLocked}

Queries == { <<"A", "b">>, <<"c">> }
TagArgs == { << <<"A", "B">> >>, << <<"x">>, <<"C">> >> }
FilterTagArgs == TagArgs \cup { << <<"1", "2">> >>, << <<>> >>, <<>> }

\* the options objects a caller passes, the invalid ones included; the matcher
\* of the model decides without reading the query, so one query stands for
\* all under the fuzzy strategy
ExactOptions ==
    [query : Queries \cup {<<>>}, includeContent : BOOLEAN,
     maxResults : 0..MaxResultsArg, fuzzy : {FALSE}]
FuzzyOptions ==
    [query : { <<"A", "b">> }, includeContent : BOOLEAN,
     maxResults : 1..MaxResultsArg, fuzzy : {TRUE}]
AllOptions == ExactOptions \cup FuzzyOptions

Init ==
    /\ fs \in [Paths -> NotesPool \cup {NoFile}]
    /\ InitQuery

Next ==
    \/ \E options \in AllOptions : SearchNotes(options)
    \/ \E tags \in TagArgs : SearchByTags(tags)
    \/ \E startDate \in 0..MaxTime, endDate \in 0..MaxTime :
          SearchByDateRange(startDate, endDate)
    \/ Step

Spec == Init /\ [][Next]_vars

\* the exact strategy alone, over ExactPool, in a directory nothing else changes
InitExact ==
    /\ fs \in [Paths -> ExactPool \cup {NoFile}]
    /\ InitQuery

NextExact ==
    \/ \E options \in ExactOptions : SearchNotes(options)
    \/ Load

SpecExact == InitExact /\ [][NextExact]_vars

\* the two filters alone, over FilterPool, in a directory nothing else changes
InitFilter ==
    /\ fs \in [Paths -> FilterPool \cup {NoFile}]
    /\ InitQuery

NextFilter ==
    \/ \E tags \in FilterTagArgs : SearchByTags(tags)
    \/ \E startDate \in 0..MaxTime, endDate \in 0..MaxTime :
          SearchByDateRange(startDate, endDate)
    \/ Load
    \/ ReadFileRejects

SpecFilter == InitFilter /\ [][NextFilter]_vars

\* notes for the loader: a block the YAML engine rejects, a well-formed block
\* in an .mdx and in a .markdown file, typed values, blank lines behind the block
LoadMalformed ==
    DiskFile(Nm(<<"m">>, ExtMd),
             << <<"-", "-", "-">>,
                <<"t", "a", "g", "s", ":", " ", "[", "a">>,
                <<"-", "-", "-">>,
                <<"x">> >>,
             1, "rw")
LoadMdx ==
    DiskFile(Nm(<<"a">>, ExtMdx),
             << <<"-", "-", "-">>,
                <<"t", "i", "t", "l", "e", ":", " ", "A", "b">>,
                <<"-", "-", "-">>,
                <<"x">> >>,
             2, "rw")
LoadMarkdown ==
    DiskFile(Nm(<<"a">>, ExtMarkdown),
             << <<"-", "-", "-">>,
                <<"t", "i", "t", "l", "e", ":", " ", "A", "b">>,
                <<"-", "-", "-">>,
                <<"x">> >>,
             2, "rw")
LoadTyped ==
    DiskFile(Nm(<<"b">>, ExtMd),
             << <<"-", "-", "-">>,
                <<"t", "a", "g", "s", ":", " ", "[", "a", "b", ",", " ", "c", "]">>,
                <<"d", "a", "t", "e", ":", " ", "2", "0", "2", "4", "-", "0", "1", "-", "1", "5">>,
                <<"-", "-", "-">>,
                <<"x">> >>,
             3, "rw")
LoadSpaced ==
    DiskFile(Nm(<<"c">>, ExtMd),
             << <<"-", "-", "-">>,
                <<"t", "i", "t", "l", "e", ":", " ", "A", "b">>,
                <<"-", "-", "-">>,
                <<>>,
                <<"x">> >>,
             1, "rw")

LoadPool == {LoadMalformed, LoadMdx, LoadMarkdown, LoadTyped, LoadSpaced}

\* the loader under every operation that loads, in a directory that other
\* processes change
LoadTagArgs == { << <<"a", "b">> >> }
LoadOptions ==
    [query : { <<"a", "b">> }, includeContent : {TRUE}, maxResults : {MaxResultsArg},
     fuzzy : {FALSE}]

InitLoad ==
    /\ fs \in [Paths -> LoadPool \cup {NoFile}]
    /\ InitQuery

NextLoad ==
    \/ \E p \in Paths : ReadContentFileCall(p)
    \/ ReadOneResolves
    \/ ReadOneRejects
    \/ StatOneResolves
    \/ StatOneRejects
    \/ MatterOneRejects
    \/ \E options \in LoadOptions : SearchNotes(options)
    \/ \E tags \in LoadTagArgs : SearchByTags(tags)
    \/ SearchByDateRange(0, MaxTime)
    \/ Step
    \/ MatterRejects

SpecLoad == InitLoad /\ [][NextLoad]_vars

\* texts for extractFrontmatter: delimiter lines with and without spaces
\* behind them, blank lines, a 'key: value' line, a body line, four hyphens
MaxLines == 4

StructureLines ==
    { <<"-", "-", "-">>,
      <<"-", "-", "-", " ">>,
      <<>>,
      <<" ">>,
      <<"a", ":", " ", "1">>,
      <<"x">>,
      <<"-", "-", "-", "-">> }

\* the texts of one to n lines; the empty string is no argument (min(1))
TextsOver(pool, n) ==
    (UNION { [1..len -> pool] : len \in 1..n }) \ { << <<>> >> }

\* lines of a frontmatter block for parseSimpleYaml: every branch of the type
\* inference, quoted literals, a comment, a line without ':', a blank line,
\* spaces around key and value, a second ':', a lone quote, unequal quotes
MaxYamlLines == 2

YamlLines ==
    { <<"a", ":", " ", "t", "r", "u", "e">>,
      <<"a", ":", " ", "\"", "t", "r", "u", "e", "\"">>,
      <<"a", ":", " ", "T", "r", "u", "e">>,
      <<"b", ":", " ", "4", "2">>,
      <<"b", ":", " ", "'", "4", "2", "'">>,
      <<"b", ":", " ", "0", "0", "7">>,
      <<"c", ":", " ", "1", ".", "5", "0">>,
      <<"c", ":", " ", "1", ".">>,
      <<"c", ":", " ", "n", "u", "l", "l">>,
      <<"#", " ", "c", ":", " ", "1">>,
      <<"x">>,
      <<>>,
      <<"k", ":", " ", "\"">>,
      <<"k", ":", " ", "a", ":", "b">>,
      <<" ", "k", " ", ":", " ", "v", " ">>,
      <<"k", ":">>,
      <<"k", ":", " ", "\"", "a", "'">>,
      <<"k", ":", " ", "\"", "\"">> }

\* a text whose block is the given lines
InBlock(lines) == << Delim >> \o lines \o << Delim, <<"x">> >>

\* lines for extractHeadings: headings of several levels, spaces inside and
\* behind the text, bare '#' with and without a space, blank lines, '#'
\* without whitespace behind it, seven '#', punctuation, a body line
MaxHeadingLines == 3

HeadingLines ==
    { <<"#", " ", "A", "b">>,
      <<"#", "#", " ", "A", " ", " ", "b", " ">>,
      <<"#">>,
      <<"#", " ">>,
      <<>>,
      <<" ">>,
      <<"#", "x">>,
      <<"#", "#", "#", "#", "#", "#", "#", " ", "x">>,
      <<"#", "#", "#", "#", "#", "#", " ", "c">>,
      <<"b">>,
      <<"#", " ", "a", "!", "b", " ", "&", " ", "c">>,
      <<"#", "#", "#", " ", "B", "_", "1", "-", "c">> }

\* the directory is empty while the markdown tools run
InitTools ==
    /\ fs = [p \in Paths |-> NoFile]
    /\ InitQuery

NextFrontmatter ==
    \/ \E text \in TextsOver(StructureLines, MaxLines) : ExtractFrontmatterHandler(text)
    \/ ToolReturns

SpecFrontmatter == InitTools /\ [][NextFrontmatter]_vars

NextHeadings ==
    \/ \E text \in TextsOver(HeadingLines, MaxHeadingLines) : ExtractHeadingsHandler(text)
    \/ \E text \in TextsOver(HeadingLines, MaxHeadingLines) :
          GenerateTableOfContentsHandler(text)
    \/ ToolReturns

SpecHeadings == InitTools /\ [][NextHeadings]_vars

NextYaml ==
    \/ \E lines \in TextsOver(YamlLines, MaxYamlLines) :
          ExtractFrontmatterHandler(InBlock(lines))
    \/ ToolReturns

SpecYaml == InitTools /\ [][NextYaml]_vars

\* getDirectoryStats in a directory that other processes change
InitStats ==
    /\ fs \in [Paths -> NotesPool \cup {NoFile}]
    /\ InitQuery

NextStats ==
    \/ GetDirectoryStats
    \/ StatsFindContentFilesResolves
    \/ StatsStatResolves
    \/ StatsStatRejects
    \/ Return
    \/ \E p \in Paths : Unlink(p)

SpecStats == InitStats /\ [][NextStats]_vars

\* find_content_files: a visible note, a hidden note, a directory named like a
\* note, a text file and an mdx file
FindNote == DiskFile(Nm(<<"a">>, ExtMd), <<<<"x">>>>, 1, "rw")
FindHidden == DiskFile(Nm(<<".", "n">>, ExtMd), <<<<"x">>>>, 1, "rw")
FindDirectory == DiskFile(Nm(<<"d">>, ExtMd), <<>>, 1, "dir")
FindText == DiskFile(Nm(<<"t">>, ExtTxt), <<<<"x">>>>, 1, "rw")
FindMdx == DiskFile(Nm(<<"c">>, ExtMdx), <<<<"x">>>>, 1, "none")
FindPool == {FindNote, FindHidden, FindDirectory, FindText, FindMdx}

\* the extensions argument: the default, a repeated extension, two extensions
\* that end the same names, one extension, none
FindExtensions ==
    { DefaultExtensions, <<ExtMd, ExtMd>>, <<ExtMd, <<"d">>>>, <<<<"x">>, ExtMdx, ExtTxt>>,
      <<ExtTxt>>, <<>> }

InitFind ==
    /\ fs \in [Paths -> FindPool \cup {NoFile}]
    /\ InitQuery

NextFind ==
    \/ \E extensions \in FindExtensions : FindContentFilesHandler(extensions)
    \/ FindGlobResolves
    \/ Return

SpecFind == InitFind /\ [][NextFind]_vars

\* another process creates, modifies or removes a file while no query runs
ChangesBetweenQueries(p, file) ==
    /\ pc = "idle"
    /\ file # fs[p]
    /\ fs' = [fs EXCEPT ![p] = file]
    /\ UNCHANGED <<pc, op, args, filePaths, idx, content, files, matchingFiles, loaded, failed,
                   fuseResults, result>>
    /\ UNCHANGED toolVars

\* queries one after the other, the directory changing between them: a note
\* with a block the YAML engine rejects, a note with tags, a plain text file
\* and a note without read permission
RescanPool == {LoadMalformed, LoadTyped, NotePlain, TagsLocked}

InitRescan ==
    /\ fs \in [Paths -> RescanPool \cup {NoFile}]
    /\ InitQuery

NextRescan ==
    \/ \E options \in LoadOptions : SearchNotes(options)
    \/ \E tags \in LoadTagArgs : SearchByTags(tags)
    \/ SearchByDateRange(0, MaxTime)
    \/ Load
    \/ ReadFileRejects
    \/ MatterRejects
    \/ \E p \in Paths : \E file \in RescanPool \cup {NoFile} : ChangesBetweenQueries(p, file)

SpecRescan == InitRescan /\ [][NextRescan]_vars

\* a second invocation of searchByTags or searchByDateRange that runs while
\* the first query is suspended: the same steps on its own locals; the
\* directory and the parser's cache are the ones of the process
SecondRuns(q) ==
    /\ second' = q
    /\ UNCHANGED <<fs, pc, op, args, filePaths, idx, content, files, matchingFiles, loaded,
                   failed, fuseResults, result, stats, markdown, tool, headings, toc,
                   extracted, html, call, proc>>

\* the end of one iteration of the second query's loop: the next file, or the
\* return statement behind the loop
SecondIteration(q, i, matching, history, skipped) ==
    [q EXCEPT !.idx = i,
              !.content = <<>>,
              !.matchingFiles = IF i <= Len(q.filePaths) THEN matching
                                ELSE SortByLastModified(matching),
              !.loaded = history,
              !.failed = skipped,
              !.pc = IF i <= Len(q.filePaths) THEN "readFile" ELSE "done",
              !.result = IF i <= Len(q.filePaths) THEN <<>> ELSE SortByLastModified(matching)]

\* searchByTags(directory, tags) is called while the first query is suspended
SecondSearchByTags(tags) ==
    /\ pc \in {"findContentFiles", "readFile", "stat"}
    /\ second.pc = "idle"
    /\ SecondRuns([NoSecond EXCEPT !.op = "searchByTags",
                                   !.args = [NoArgs EXCEPT !.tags = tags],
                                   !.pc = "findContentFiles"])
    /\ UNCHANGED matterCache

\* searchByDateRange(directory, startDate, endDate) is called while the first
\* query is suspended
SecondSearchByDateRange(startDate, endDate) ==
    /\ pc \in {"findContentFiles", "readFile", "stat"}
    /\ second.pc = "idle"
    /\ SecondRuns([NoSecond EXCEPT !.op = "searchByDateRange",
                                   !.args = [NoArgs EXCEPT !.startDate = startDate,
                                                           !.endDate = endDate],
                                   !.pc = "findContentFiles"])
    /\ UNCHANGED matterCache

\* the second query: findContentFiles resolves
SecondFindContentFilesResolves ==
    /\ second.pc = "findContentFiles"
    /\ LET found == FindContentFiles(fs, DefaultExtensions)
           paths == [i \in 1..Len(found) |-> PathOf(fs, found[i])]
       IN  SecondRuns(SecondIteration([second EXCEPT !.filePaths = paths], 1,
                                      <<>>, <<>>, <<>>))
    /\ UNCHANGED matterCache

\* the second query: await readFile resolves
SecondReadFileResolves ==
    /\ second.pc = "readFile"
    /\ CanReadFile(fs, second.filePaths[second.idx].path)
    /\ SecondRuns([second EXCEPT !.content = fs[second.filePaths[second.idx].path].text,
                                 !.pc = "stat"])
    /\ UNCHANGED matterCache

\* the second query: await readFile rejects; catch, console.warn, continue
SecondReadFileRejects ==
    /\ second.pc = "readFile"
    /\ ~CanReadFile(fs, second.filePaths[second.idx].path)
    /\ SecondRuns(SecondIteration(second, second.idx + 1, second.matchingFiles,
                                  second.loaded,
                                  Append(second.failed, second.filePaths[second.idx].path)))
    /\ UNCHANGED matterCache

\* whether the second query's loop body pushes the file
SecondPushes(file) ==
    IF second.op = "searchByTags" THEN HasMatchingTag(file, second.args.tags)
    ELSE InDateRange(file, second.args.startDate, second.args.endDate)

\* the second query: await stat resolves; the rest of the loop body
SecondStatResolves ==
    /\ second.pc = "stat"
    /\ CanStat(fs, second.filePaths[second.idx].path)
    /\ ~ParseThrows(second.filePaths[second.idx], second.content)
    /\ LET file == ReadContentFile(fs, second.filePaths[second.idx], second.content)
       IN  SecondRuns(SecondIteration(second, second.idx + 1,
                                      IF SecondPushes(file)
                                      THEN Append(second.matchingFiles, file)
                                      ELSE second.matchingFiles,
                                      Append(second.loaded, file),
                                      second.failed))
    /\ UNCHANGED matterCache

\* the second query: stat resolves and matter(content) throws; catch,
\* console.warn, continue
SecondMatterRejects ==
    /\ second.pc = "stat"
    /\ CanStat(fs, second.filePaths[second.idx].path)
    /\ ParseThrows(second.filePaths[second.idx], second.content)
    /\ matterCache' = matterCache \cup {second.content}
    /\ SecondRuns(SecondIteration(second, second.idx + 1, second.matchingFiles,
                                  second.loaded,
                                  Append(second.failed, second.filePaths[second.idx].path)))

\* two queries at the same time over a directory nothing changes; each runs
\* once, in a process that ran no query before
InitConcurrent ==
    /\ fs \in [Paths -> RescanPool \cup {NoFile}]
    /\ InitQuery

NextConcurrent ==
    \/ \E options \in LoadOptions : SearchNotes(options)
    \/ \E tags \in LoadTagArgs : SearchByTags(tags)
    \/ SearchByDateRange(0, MaxTime)
    \/ FindContentFilesResolves
    \/ ReadFileResolves
    \/ ReadFileRejects
    \/ StatResolves
    \/ MatterRejects
    \/ \E tags \in LoadTagArgs : SecondSearchByTags(tags)
    \/ SecondSearchByDateRange(0, MaxTime)
    \/ SecondFindContentFilesResolves
    \/ SecondReadFileResolves
    \/ SecondReadFileRejects
    \/ SecondStatResolves
    \/ SecondMatterRejects

SpecConcurrent == InitConcurrent /\ [][NextConcurrent]_vars

\* every operation with every option, in a directory nothing else changes
InitRank ==
    /\ fs \in [Paths -> NotesPool \cup {NoFile}]
    /\ InitQuery

NextRank ==
    \/ \E options \in AllOptions : SearchNotes(options)
    \/ \E tags \in TagArgs : SearchByTags(tags)
    \/ \E startDate \in 0..MaxTime, endDate \in 0..MaxTime :
          SearchByDateRange(startDate, endDate)
    \/ Load

SpecRank == InitRank /\ [][NextRank]_vars

\* the requests a client sends: registered tools with arguments their schema
\* accepts and rejects, unregistered names, names Object.prototype defines
ToolRequests ==
    [name : {"search_notes"},
     arguments : [query : { <<>>, <<"a", "b">> }, maxResultsHalves : {0 - 2, 0, 3, 4},
                  tags : { <<>> }, startDate : {0}, endDate : {0}]]
    \cup [name : {"search_by_tags"},
          arguments : [query : { <<>> }, maxResultsHalves : {2},
                       tags : { <<>>, << <<"a", "b">> >> }, startDate : {0}, endDate : {0}]]
    \cup [name : {"search_by_date_range"},
          arguments : [query : { <<>> }, maxResultsHalves : {2}, tags : { <<>> },
                       startDate : {InvalidDate, 0}, endDate : {InvalidDate, MaxTime}]]
    \cup [name : {"get_directory_stats", "no_such_tool", "", "toString", "constructor"},
          arguments : {NoArguments}]

\* the server handling one request after the other, in a directory that other
\* processes change
InitServer ==
    /\ fs \in [Paths -> NotesPool \cup {NoFile}]
    /\ InitQuery

NextServer ==
    \/ \E request \in ToolRequests : CallTool(request)
    \/ FindContentFilesResolves
    \/ ReadFileResolves
    \/ ReadFileRejects
    \/ StatResolves
    \/ StatRejects
    \/ StatsFindContentFilesResolves
    \/ StatsStatResolves
    \/ StatsStatRejects
    \/ \E p \in Paths : Unlink(p)
    \/ CallToolResponds
    \/ NextRequest

SpecServer == InitServer /\ [][NextServer]_vars

\* strings marked can hand to sanitizeHtml: up to MaxPieces pieces, among
\* them whole and split script tags, the protocol in two halves and in
\* mixed case, and an event handler attribute
MaxPieces == 4

HtmlPieces ==
    { <<"<", "s", "c", "r", "i", "p", "t", ">">>,
      <<"<", "/", "s", "c", "r", "i", "p", "t", ">">>,
      <<"<", "s", "c", "r">>,
      <<"i", "p", "t", ">">>,
      <<"j", "a", "v", "a">>,
      <<"s", "C", "r", "i", "p", "t", ":">>,
      <<" ", "o", "n", "x", "=", "'", "y", "'">> }

RECURSIVE Pieces(_)
Pieces(pieces) ==
    IF pieces = <<>> THEN <<>> ELSE Head(pieces) \o Pieces(Tail(pieces))

HtmlStrings == { Pieces(pieces) : pieces \in UNION { [1..n -> HtmlPieces] : n \in 1..MaxPieces } }

NextSanitize ==
    \/ \E marked \in HtmlStrings : RenderMarkdownSanitizes(marked)
    \/ ToolReturns

SpecSanitize == InitTools /\ [][NextSanitize]_vars

\* texts with a block and up to MaxTailLines lines behind it: blank lines,
\* lines of spaces, body lines with and without spaces in front, a further
\* '---' line
MaxTailLines == 3

TailLines ==
    { <<>>,
      <<" ">>,
      <<"x">>,
      <<" ", "x">>,
      <<"-", "-", "-">> }

BlockLines ==
    { << <<"-", "-", "-">>, <<"a", ":", " ", "1">>, <<"-", "-", "-">> >>,
      << <<"-", "-", "-", " ">>, <<"x">>, <<"-", "-", "-", " ">> >>,
      << <<"-", "-", "-">>, <<>>, <<"-", "-", "-">> >>,
      << <<"-", "-", "-">>, <<"-", "-", "-">> >> }

BodyTexts ==
    { block \o tail : block \in BlockLines, tail \in TextsOver(TailLines, MaxTailLines) }

NextBody ==
    \/ \E text \in BodyTexts : ExtractFrontmatterHandler(text)
    \/ ToolReturns

SpecBody == InitTools /\ [][NextBody]_vars

\* another process overwrites a file while a load may be suspended at an
\* await: the name stays, text and mtime are those of the new version
WriteFile(p, file) ==
    /\ fs[p].mode = "rw"
    /\ file.name = fs[p].name
    /\ file # fs[p]
    /\ fs' = [fs EXCEPT ![p] = file]
    /\ UNCHANGED <<pc, op, args, filePaths, idx, content, files, matchingFiles, loaded, failed,
                   fuseResults, result>>
    /\ UNCHANGED toolVars

\* two versions of a text file and two of a note: each version has its own
\* text, size and mtime
PlainOld == DiskFile(Nm(<<"c">>, ExtTxt), << <<"x">> >>, 1, "rw")

PlainNew == DiskFile(Nm(<<"c">>, ExtTxt), << <<"x">>, <<"a", "b">> >>, 2, "rw")

NoteOld ==
    DiskFile(Nm(<<"a">>, ExtMd),
             << <<"-", "-", "-">>, <<"t", "i", "t", "l", "e", ":", " ", "A", "b">>,
                <<"-", "-", "-">>, <<"x">> >>,
             1, "rw")

NoteNew ==
    DiskFile(Nm(<<"a">>, ExtMd),
             << <<"-", "-", "-">>, <<"t", "i", "t", "l", "e", ":", " ", "A", "b">>,
                <<"-", "-", "-">>, <<"x">>, <<"c">> >>,
             3, "rw")

VersionPool == {PlainOld, PlainNew, NoteOld, NoteNew}

InitVersions ==
    /\ fs \in [Paths -> VersionPool \cup {NoFile}]
    /\ InitQuery

\* readContentFile while other processes write and remove files at any time
NextVersions ==
    \/ \E p \in Paths : ReadContentFileCall(p)
    \/ ReadOneResolves
    \/ ReadOneRejects
    \/ StatOneResolves
    \/ StatOneRejects
    \/ Return
    \/ \E p \in Paths : \E file \in VersionPool : WriteFile(p, file)
    \/ \E p \in Paths : Unlink(p)

SpecVersions == InitVersions /\ [][NextVersions]_vars

\* the same loads, the files changing only while no load runs
NextVersionsBetweenLoads ==
    \/ \E p \in Paths : ReadContentFileCall(p)
    \/ ReadOneResolves
    \/ ReadOneRejects
    \/ StatOneResolves
    \/ Return
    \/ \E p \in Paths : \E file \in VersionPool \cup {NoFile} : ChangesBetweenQueries(p, file)

SpecVersionsBetweenLoads == InitVersions /\ [][NextVersionsBetweenLoads]_vars

---------------------------------------------------------------------------
(* index.ts: signals, uncaught errors and the exit of the process *)

Signals == {"SIGINT", "SIGTERM"}

Faults == {"uncaughtException", "unhandledRejection"}

\* what the process leaves alone while the handlers of its events run
lifecycleUnchanged ==
    <<fs, pc, op, args, filePaths, idx, content, files, matchingFiles, loaded, failed,
      fuseResults, result, stats, matterCache, markdown, tool, headings, toc, extracted,
      html, second, call>>

\* process.on('SIGINT' / 'SIGTERM'): the handler calls this.server.close()
\* and awaits it
Signal(sig) ==
    /\ proc.state = "running"
    /\ proc' = [proc EXCEPT !.state = "closing", !.event = sig]
    /\ UNCHANGED lifecycleUnchanged

\* await this.server.close() resolves: the transport is closed
CloseResolves ==
    /\ proc.state = "closing"
    /\ proc' = [proc EXCEPT !.state = "closed", !.closed = TRUE]
    /\ UNCHANGED lifecycleUnchanged

\* await this.server.close() rejects: the handler's promise rejects, nothing
\* catches it, and the 'unhandledRejection' handler calls process.exit(1)
CloseRejects ==
    /\ proc.state = "closing"
    /\ proc' = [proc EXCEPT !.state = "exited", !.exitCode = 1]
    /\ UNCHANGED lifecycleUnchanged

\* SignalHandlerExits for a handler that does not await the close
SignalHandlerExitsAtOnce ==
    /\ proc.state \in {"closing", "closed"}
    /\ proc' = [proc EXCEPT !.state = "exited", !.exitCode = 0]
    /\ UNCHANGED lifecycleUnchanged

\* the handler resumes behind the await: process.exit(0)
SignalHandlerExits ==
    /\ proc.state = "closed"
    /\ proc' = [proc EXCEPT !.state = "exited", !.exitCode = 0]
    /\ UNCHANGED lifecycleUnchanged

\* process.on('uncaughtException' / 'unhandledRejection'): console.error and
\* process.exit(1), whatever the process was doing
Fault(event) ==
    /\ proc.state \in {"running", "closing"}
    /\ proc' = [proc EXCEPT !.state = "exited", !.event = event, !.exitCode = 1]
    /\ UNCHANGED lifecycleUnchanged

\* the server while it lives: requests are handled until process.exit
Serves ==
    /\ proc.state # "exited"
    /\ NextServer

NextLifecycle ==
    \/ Serves
    \/ \E sig \in Signals : Signal(sig)
    \/ CloseResolves
    \/ CloseRejects
    \/ SignalHandlerExits
    \/ \E event \in Faults : Fault(event)

\* the process after main(), over a directory of plain text files
InitLifecycle ==
    /\ fs \in [Paths -> {NotePlain, NoFile}]
    /\ InitQuery

SpecLifecycle == InitLifecycle /\ [][NextLifecycle]_vars

\* close() settles and the handler that awaits it resumes; nothing is assumed
\* about the steps of a tool call
SpecLifecycleFair ==
    /\ SpecLifecycle
    /\ WF_vars(CloseResolves \/ CloseRejects)
    /\ WF_vars(SignalHandlerExits)

---------------------------------------------------------------------------
(* The properties of the search operations *)

\* q is a substring of s when letter case is ignored
ContainsIgnoringCase(s, q) ==
    \E i \in 1..(Len(s) - Len(q) + 1) :
        \A k \in 1..Len(q) : LowerChar(s[i + k - 1]) = LowerChar(q[k])

NameHit(doc, q) == ContainsIgnoringCase(doc.name, q)
HitLines(doc, q) ==
    { n \in 1..Len(doc.content) : ContainsIgnoringCase(doc.content[n], q) }
HitEntries(doc, q) ==
    { e \in 1..Len(doc.frontmatter) :
        /\ doc.frontmatter[e].value.type = "string"
        /\ ContainsIgnoringCase(doc.frontmatter[e].value.v, q) }

DocMatches(doc, q) == NameHit(doc, q) \/ HitLines(doc, q) # {} \/ HitEntries(doc, q) # {}

\* min(1.0, 0.4*n + 0.1*l + 0.2*k), in tenths
ScoreFormula(doc, q) ==
    LET sum == 4 * (IF NameHit(doc, q) THEN 1 ELSE 0)
               + 1 * Cardinality(HitLines(doc, q))
               + 2 * Cardinality(HitEntries(doc, q))
    IN  IF sum < 10 THEN sum ELSE 10

\* the filename entry, the line entries in ascending line order, the
\* frontmatter entries
AllEntries(doc, q) ==
    LET lineNumbers == SelectSeq([n \in 1..Len(doc.content) |-> n],
                                 LAMBDA n : n \in HitLines(doc, q))
        entryNumbers == SelectSeq([e \in 1..Len(doc.frontmatter) |-> e],
                                  LAMBDA e : e \in HitEntries(doc, q))
    IN  (IF NameHit(doc, q) THEN << FilenamePrefix \o doc.name >> ELSE <<>>)
        \o [k \in 1..Len(lineNumbers) |->
               LinePrefix \o NumberToString(lineNumbers[k]) \o ColonSpace
               \o Trim(doc.content[lineNumbers[k]])]
        \o [k \in 1..Len(entryNumbers) |->
               doc.frontmatter[entryNumbers[k]].key \o ColonSpace
               \o doc.frontmatter[entryNumbers[k]].value.v]

\* the loaded Document of a path, and the position of a path in the scan
LoadedPaths == { loaded[k].path : k \in 1..Len(loaded) }
DocOf(path) == loaded[CHOOSE k \in 1..Len(loaded) : loaded[k].path = path]
ScanPos(path) == CHOOSE k \in 1..Len(filePaths) : filePaths[k].path = path
ResultPaths == { result[i].file.path : i \in 1..Len(result) }

SearchDone == pc = "done" /\ op = "searchNotes"
ExactDone == SearchDone /\ ~args.fuzzy
FuzzyDone == SearchDone /\ args.fuzzy

\* C1: every SearchResult searchNotes returns, under the fuzzy and under the
\* exact strategy, has a score between 0 and 1 (0 and 10 tenths)
C1_ScoreInUnitInterval ==
    SearchDone =>
        \A i \in 1..Len(result) : result[i].score >= 0 /\ result[i].score <= 10

\* C1 witness: an exact result whose additions exceed 1 and whose score is 1
C1_Witness ==
    /\ ExactDone
    /\ \E i \in 1..Len(result) :
          LET doc == DocOf(result[i].file.path)
          IN  /\ result[i].score = 10
              /\ 4 + Cardinality(HitLines(doc, args.query))
                   + 2 * Cardinality(HitEntries(doc, args.query)) > 10
              /\ NameHit(doc, args.query)

\* C3: the list searchNotes returns is ordered by non-increasing score, under
\* both strategies
C3_SortedByScore ==
    SearchDone =>
        \A i \in 1..Len(result) : \A j \in 1..Len(result) :
            i < j => result[i].score >= result[j].score

\* C3 witness: an exact search whose best result was scanned after a worse one
C3_Witness ==
    /\ ExactDone
    /\ \E i \in 1..Len(result) : \E j \in 1..Len(result) :
          /\ i < j
          /\ result[i].score > result[j].score
          /\ ScanPos(result[i].file.path) > ScanPos(result[j].file.path)

\* C6: every SearchResult has at most 5 matches under both strategies; under
\* the exact strategy they are the first 5 of: filename entry, line entries
\* in ascending line order, frontmatter entries; and the score counts every
\* match, the dropped ones included
C6_MatchesCapped ==
    SearchDone =>
        \A i \in 1..Len(result) :
            /\ Len(result[i].matches) <= 5
            /\ ~args.fuzzy =>
                  LET doc == DocOf(result[i].file.path)
                      all == AllEntries(doc, args.query)
                  IN  /\ result[i].matches = SubSeq(all, 1, IF Len(all) < 5 THEN Len(all) ELSE 5)
                      /\ result[i].score = ScoreFormula(doc, args.query)

\* C6 witness: an exact result with more than 5 entries, 5 of them kept
C6_Witness ==
    /\ ExactDone
    /\ \E i \in 1..Len(result) :
          /\ Len(AllEntries(DocOf(result[i].file.path), args.query)) > 5
          /\ Len(result[i].matches) = 5

RanksBefore(scoreA, pathA, scoreB, pathB) ==
    \/ scoreA > scoreB
    \/ scoreA = scoreB /\ ScanPos(pathA) < ScanPos(pathB)

\* C4: under the exact strategy equal scores keep the order of the scan, and
\* the list is the first maxResults entries of that ordering of the matching
\* documents: no excluded matching document ranks before an included one, and
\* the length is min(maxResults, number of matching documents)
C4_StableTopResults ==
    ExactDone =>
        LET matching == { k \in 1..Len(loaded) : DocMatches(loaded[k], args.query) }
            excluded == { k \in matching : loaded[k].path \notin ResultPaths }
        IN  /\ Len(result) = (IF args.maxResults < Cardinality(matching)
                              THEN args.maxResults ELSE Cardinality(matching))
            /\ \A i \in 1..Len(result) : \A j \in 1..Len(result) :
                  i < j => RanksBefore(result[i].score, result[i].file.path,
                                       result[j].score, result[j].file.path)
            /\ \A i \in 1..Len(result) : \A k \in excluded :
                  /\ RanksBefore(result[i].score, result[i].file.path,
                                 ScoreFormula(loaded[k], args.query), loaded[k].path)
                  /\ ScoreFormula(loaded[k], args.query) <= result[i].score

\* C4 witness: two results of equal score, and a matching document of that
\* same score cut off by maxResults
C4_Witness ==
    /\ ExactDone
    /\ Len(result) >= 2
    /\ result[Len(result) - 1].score = result[Len(result)].score
    /\ \E k \in 1..Len(loaded) :
          /\ DocMatches(loaded[k], args.query)
          /\ loaded[k].path \notin ResultPaths
          /\ ScoreFormula(loaded[k], args.query) = result[Len(result)].score

\* C5: under the exact strategy a loaded document is in the untruncated result
\* if and only if the query is, letter case ignored, a substring of its
\* filename, of a body line or of a string-valued frontmatter entry; no result
\* has an empty matches list or a score of 0
C5_MatchingDocumentsOnly ==
    ExactDone =>
        /\ \A i \in 1..Len(result) :
              /\ result[i].matches # <<>>
              /\ result[i].score > 0
              /\ result[i].file.path \in LoadedPaths
              /\ DocMatches(DocOf(result[i].file.path), args.query)
        /\ Len(loaded) <= args.maxResults =>
              \A k \in 1..Len(loaded) :
                  DocMatches(loaded[k], args.query) => loaded[k].path \in ResultPaths

\* C5 witness: an untruncated result next to a loaded document without a match
C5_Witness ==
    /\ ExactDone
    /\ Len(loaded) <= args.maxResults
    /\ Len(result) >= 1
    /\ \E k \in 1..Len(loaded) :
          /\ ~DocMatches(loaded[k], args.query)
          /\ loaded[k].path \notin ResultPaths

TagsDone == pc = "done" /\ op = "searchByTags"
DatesDone == pc = "done" /\ op = "searchByDateRange"
ReturnedPaths == { result[i].path : i \in 1..Len(result) }

\* the tags field as an array: a single scalar is a one-element array
TagsField(doc) ==
    IF doc.hasFrontmatter /\ HasKey(doc.frontmatter, KeyOfTags)
    THEN LET value == Lookup(doc.frontmatter, KeyOfTags).value
         IN  IF value.type = "array" THEN value.items ELSE <<value>>
    ELSE <<>>

\* a stored tag equals a desired tag, letter case ignored
SameTag(stored, desired) ==
    /\ stored.type = "string"
    /\ Len(stored.v) = Len(desired)
    /\ \A c \in 1..Len(desired) : LowerChar(stored.v[c]) = LowerChar(desired[c])

ContainsDesiredTag(doc, tags) ==
    \E e \in 1..Len(TagsField(doc)) : \E t \in 1..Len(tags) :
        SameTag(TagsField(doc)[e], tags[t])

\* C7: searchByTags returns a loaded document if and only if its tags field,
\* a single scalar taken as a one-element array, contains an element equal to
\* a desired tag, letter case ignored
C7_TagFilterIff ==
    TagsDone =>
        \A k \in 1..Len(loaded) :
            loaded[k].path \in ReturnedPaths <=> ContainsDesiredTag(loaded[k], args.tags)

\* C7, apart from an empty tags scalar: the same equivalence for the documents
\* whose tags field is truthy, and no other document is returned
C7_TagFilterIffTruthy ==
    TagsDone =>
        \A k \in 1..Len(loaded) :
            loaded[k].path \in ReturnedPaths
            <=> /\ ContainsDesiredTag(loaded[k], args.tags)
                /\ TagsField(loaded[k]) # << StringValue(<<>>) >>

\* C8: searchByDateRange returns a loaded document if and only if
\* startDate <= lastModified <= endDate, both boundaries included
C8_DateRangeInclusive ==
    DatesDone =>
        \A k \in 1..Len(loaded) :
            loaded[k].path \in ReturnedPaths
            <=> (args.startDate <= loaded[k].lastModified
                 /\ loaded[k].lastModified <= args.endDate)

\* C8 witness: a document on each boundary returned, one past the end not
C8_Witness ==
    /\ DatesDone
    /\ args.startDate < args.endDate
    /\ \E i \in 1..Len(result) : result[i].lastModified = args.startDate
    /\ \E i \in 1..Len(result) : result[i].lastModified = args.endDate
    /\ \E k \in 1..Len(loaded) :
          /\ loaded[k].lastModified > args.endDate
          /\ loaded[k].path \notin ReturnedPaths

\* C9: the lists searchByTags and searchByDateRange return are ordered by
\* lastModified, most recent first
C9_SortedByLastModified ==
    (TagsDone \/ DatesDone) =>
        \A i \in 1..Len(result) : \A j \in 1..Len(result) :
            i < j => result[i].lastModified >= result[j].lastModified

\* C9 witness: a tag search whose most recent document was scanned later
C9_Witness ==
    /\ TagsDone
    /\ \E i \in 1..Len(result) : \E j \in 1..Len(result) :
          /\ i < j
          /\ result[i].lastModified > result[j].lastModified
          /\ ScanPos(result[i].path) > ScanPos(result[j].path)

\* what the operation returns when it is run over the documents docs, the
\* matcher answering fuseResults
ResultOver(docs) ==
    CASE op = "searchNotes" /\ args.fuzzy ->
            [k \in 1..Len(fuseResults) |->
                [file |-> docs[fuseResults[k].refIndex],
                 score |-> 10 - fuseResults[k].score,
                 matches |-> ExtractMatches(fuseResults[k].matches)]]
      [] op = "searchNotes" /\ ~args.fuzzy ->
            PerformExactSearch(docs, args.query, args.maxResults, TRUE)
      [] op = "searchByTags" ->
            SortByLastModified(SelectSeq(docs, LAMBDA d : HasMatchingTag(d, args.tags)))
      [] OTHER ->
            SortByLastModified(SelectSeq(docs,
                LAMBDA d : InDateRange(d, args.startDate, args.endDate)))

\* C10: in searchNotes, searchByTags and searchByDateRange a file that fails
\* to load does not end the operation: only invalid options throw, the loop
\* goes through the enumerated files one by one, and when the operation is
\* done every enumerated file was either loaded or failed and the result is
\* the result over exactly the loaded files
C10_LoadFailuresSkipped ==
    /\ pc = "thrown" => (op = "searchNotes" /\ ~ValidOptions(args))
    /\ pc \in {"readFile", "stat"} =>
          /\ idx \in 1..Len(filePaths)
          /\ Len(loaded) + Len(failed) = idx - 1
    /\ pc = "done" =>
          /\ Len(loaded) + Len(failed) = Len(filePaths)
          /\ \A k \in 1..Len(filePaths) :
                filePaths[k].path \in LoadedPaths
                \/ \E f \in 1..Len(failed) : failed[f] = filePaths[k].path
          /\ \A k \in 1..Len(fuseResults) :
                /\ fuseResults[k].refIndex \in 1..Len(loaded)
                /\ fuseResults[k].item = loaded[fuseResults[k].refIndex]
          /\ result = ResultOver(loaded)

\* C10 witness: a done operation with a failed file, a file loaded after it,
\* and something returned
C10_Witness ==
    /\ pc = "done"
    /\ Len(result) >= 1
    /\ \E i \in 1..Len(filePaths) : \E j \in 1..Len(filePaths) :
          /\ i < j
          /\ \E f \in 1..Len(failed) : failed[f] = filePaths[i].path
          /\ filePaths[j].path \in LoadedPaths

---------------------------------------------------------------------------
(* The properties of getDirectoryStats *)

StatsDone == pc = "done" /\ op = "getDirectoryStats"

\* C11: getDirectoryStats does not fail because one enumerated file cannot
\* be statted: the operation never ends in a rejection
C11_StatsNeverAbort ==
    op = "getDirectoryStats" => pc # "thrown"

\* getDirectoryStats rejects only at a stat, and then some enumerated file
\* is gone; statistics that are returned count every enumerated file
C11_StatsAbortOnlyAtStat ==
    /\ (op = "getDirectoryStats" /\ pc = "thrown") =>
          /\ idx \in 1..Len(filePaths)
          /\ ~CanStat(fs, filePaths[idx].path)
    /\ StatsDone =>
          /\ stats.totalFiles = Len(filePaths)
          /\ idx = Len(filePaths) + 1

---------------------------------------------------------------------------
(* The properties of the loader *)

ReadOneDone == pc = "done" /\ op = "readContentFile"
BulkDone == pc = "done" /\ op \in {"searchNotes", "searchByTags", "searchByDateRange"}

\* the file's text starts a frontmatter block that the YAML engine rejects
MalformedFrontmatter(p) ==
    /\ fs[p].mode = "rw"
    /\ ParsesFrontmatter(fs[p].name)
    /\ Len(fs[p].text) >= 1 /\ fs[p].text[1] = Delim
    /\ YamlThrows(MatterBlock(fs[p].text))

\* the path is among the results of the finished bulk operation
InResults(path) ==
    IF op = "searchNotes"
    THEN \E i \in 1..Len(result) : result[i].file.path = path
    ELSE \E i \in 1..Len(result) : result[i].path = path

\* C12: malformed frontmatter never surfaces as an error: readContentFile
\* yields a Document without metadata for a readable markdown file whose
\* leading block is malformed, so read_content_file does not reject it and
\* the search, tag and date-range operations load it and do not drop it
C12_MalformedNeverRejected ==
    /\ (op = "readContentFile" /\ pc = "thrown") =>
          ~MalformedFrontmatter(filePaths[1].path)
    /\ ReadOneDone =>
          (MalformedFrontmatter(filePaths[1].path) => result[1].frontmatter = <<>>)
    /\ BulkDone =>
          \A k \in 1..Len(filePaths) :
              MalformedFrontmatter(filePaths[k].path) =>
                  /\ filePaths[k].path \in LoadedPaths
                  /\ DocOf(filePaths[k].path).frontmatter = <<>>
                  /\ op = "searchByDateRange" => InResults(filePaths[k].path)

\* a load fails only for a file that is gone, or for a malformed block at
\* the first parse of its text; a malformed block that does load (a later
\* parse of the same text) has no metadata and the whole text as its body
C12_OnlyFirstParseRejects ==
    /\ \A f \in 1..Len(failed) :
          \/ ~CanReadFile(fs, failed[f])
          \/ MalformedFrontmatter(failed[f]) /\ fs[failed[f]].text \in matterCache
    /\ \A k \in 1..Len(loaded) :
          (fs[loaded[k].path].mode = "rw" /\ MalformedFrontmatter(loaded[k].path)) =>
              /\ loaded[k].frontmatter = <<>>
              /\ loaded[k].content = fs[loaded[k].path].text
              /\ fs[loaded[k].path].text \in matterCache

---------------------------------------------------------------------------
(* The properties of the frontmatter parser *)

FrontmatterDone == tool = "extract_frontmatter"

\* the line is '---', spaces behind it allowed
IsDashLine(line) == TrimEnd(line) = <<"-", "-", "-">>

\* the text has an opening '---' line at its very start and a '---' line
\* after it
HasOpeningLine(text) == IsDashLine(text[1])
HasClosingLine(text) == \E j \in 2..Len(text) : IsDashLine(text[j])

\* C13: for a text that does not start with a complete frontmatter block (no
\* opening '---' line at the very start, or no closing '---' line)
\* extractFrontmatter returns an empty mapping and the text unchanged
C13_NoBlockUnchanged ==
    (FrontmatterDone /\ ~(HasOpeningLine(markdown) /\ HasClosingLine(markdown))) =>
        /\ extracted.frontmatter = <<>>
        /\ extracted.content = markdown

\* C13 witness: an opened block with a 'key: value' line that nothing closes,
\* returned unchanged
C13_Witness ==
    /\ FrontmatterDone
    /\ HasOpeningLine(markdown)
    /\ ~HasClosingLine(markdown)
    /\ \E i \in 2..Len(markdown) : IndexOf(markdown[i], ":") # 0
    /\ extracted.frontmatter = <<>>
    /\ extracted.content = markdown

\* the lines of the block of a text InBlock built
BlockOf(text) == SubSeq(text, 2, Len(text) - 2)

\* the line is skipped: blank, a comment, or without ':'
Skipped(line) ==
    \/ Trim(line) = <<>>
    \/ Trim(line)[1] = "#"
    \/ \A i \in 1..Len(line) : line[i] # ":"

\* the position of the first ':' of a line that has one
FirstColon(line) == CHOOSE i \in 1..Len(line) : line[i] = ":" /\ \A j \in 1..(i - 1) : line[j] # ":"

KeyOfLine(line) == Trim(SubSeq(line, 1, FirstColon(line) - 1))
RawOfLine(line) == Trim(SubSeq(line, FirstColon(line) + 1, Len(line)))

\* the natural number a digit string writes
RECURSIVE DigitsToNat(_)
DigitsToNat(digits) ==
    IF digits = <<>> THEN 0
    ELSE 10 * DigitsToNat(SubSeq(digits, 1, Len(digits) - 1))
         + (CHOOSE d \in 0..9 : DigitChars[d + 1] = digits[Len(digits)])

\* 'digits' or 'digits.digits' as the pair <<whole, fraction in thousandths>>
DecimalOf(s) ==
    LET d == IF \E i \in 1..Len(s) : s[i] = "."
             THEN CHOOSE i \in 1..Len(s) : s[i] = "."
             ELSE Len(s) + 1
        fraction == SubSeq(s, d + 1, Len(s))
        padded == SubSeq(fraction \o <<"0", "0", "0">>, 1, 3)
    IN  << DigitsToNat(SubSeq(s, 1, d - 1)), DigitsToNat(padded) >>

OnlyDigits(s) == s # <<>> /\ \A i \in 1..Len(s) : s[i] \in { DigitChars[d] : d \in 1..10 }

IsFloatText(s) ==
    \E d \in 2..(Len(s) - 1) :
        /\ s[d] = "."
        /\ OnlyDigits(SubSeq(s, 1, d - 1))
        /\ OnlyDigits(SubSeq(s, d + 1, Len(s)))

\* one layer of matching quotes around the text
Quoted(s) == Len(s) >= 2 /\ s[1] = s[Len(s)] /\ s[1] \in {"\"", "'"}

\* the stored value is the raw value typed in the stated precedence
TypedAs(value, raw) ==
    IF raw \in { <<"t", "r", "u", "e">>, <<"f", "a", "l", "s", "e">> }
    THEN value.type = "boolean" /\ value.v = raw
    ELSE IF raw = <<"n", "u", "l", "l">> THEN value.type = "null"
    ELSE IF OnlyDigits(raw) \/ IsFloatText(raw)
    THEN value.type = "number" /\ DecimalOf(value.v) = DecimalOf(raw)
    ELSE IF Quoted(raw)
    THEN value.type = "string" /\ value.v = SubSeq(raw, 2, Len(raw) - 1)
    ELSE value.type = "string" /\ value.v = raw

\* the last line of the block that sets the key
SetsLast(block, i) ==
    /\ ~Skipped(block[i])
    /\ \A j \in (i + 1)..Len(block) :
          Skipped(block[j]) \/ KeyOfLine(block[j]) # KeyOfLine(block[i])

\* C16: the parser skips blank lines, comment lines and lines without ':';
\* every other line is split at its first ':' into the trimmed key and the
\* trimmed raw value, typed in the precedence true/false, null, integer,
\* float, string with one layer of matching surrounding quotes removed
C16_LineTyping ==
    FrontmatterDone =>
        LET block == BlockOf(markdown)
            entries == extracted.frontmatter
        IN  /\ \A e \in 1..Len(entries) :
                  \E i \in 1..Len(block) :
                      SetsLast(block, i) /\ KeyOfLine(block[i]) = entries[e].key
            /\ \A i \in 1..Len(block) :
                  SetsLast(block, i) =>
                      \E e \in 1..Len(entries) :
                          /\ entries[e].key = KeyOfLine(block[i])
                          /\ TypedAs(entries[e].value, RawOfLine(block[i]))

\* C16 apart from a raw value that is one quote character: the same
\* statement for every other line
C16_LineTypingPaired ==
    FrontmatterDone =>
        LET block == BlockOf(markdown)
            entries == extracted.frontmatter
        IN  /\ \A e \in 1..Len(entries) :
                  \E i \in 1..Len(block) :
                      SetsLast(block, i) /\ KeyOfLine(block[i]) = entries[e].key
            /\ \A i \in 1..Len(block) :
                  SetsLast(block, i) =>
                      \E e \in 1..Len(entries) :
                          /\ entries[e].key = KeyOfLine(block[i])
                          /\ IF RawOfLine(block[i]) \in { <<"\"">>, <<"'">> }
                             THEN entries[e].value = StringValue(<<>>)
                             ELSE TypedAs(entries[e].value, RawOfLine(block[i]))

---------------------------------------------------------------------------
(* The properties of the Documents readContentFile returns *)

\* the file of a loaded Document is still on disk
OnDisk(doc) == fs[doc.path].mode = "rw"
TextOf(doc) == fs[doc.path].text

\* a markdown-family name
MarkdownFamily(name) ==
    \E ext \in {ExtMd, ExtMarkdown, ExtMdx} :
        /\ Len(name) >= Len(ext)
        /\ SubSeq(name, Len(name) - Len(ext) + 1, Len(name)) = ext

\* the line is 'key: value' with a plain value
PlainEntry(line) ==
    /\ \E i \in 2..Len(line) : line[i] = ":"
    /\ line[1] \notin {" ", "#", "-"}
    /\ \A i \in 1..Len(line) : line[i] = "[" => line[Len(line)] = "]"

\* the text begins with a well-formed frontmatter block: '---', one or more
\* 'key: value' lines, '---'; the operator gives the line that closes it, 0
\* when the text has no such block
WellFormedBlock(text) ==
    IF /\ Len(text) >= 3
       /\ text[1] = <<"-", "-", "-">>
       /\ \E c \in 3..Len(text) :
             /\ text[c] = <<"-", "-", "-">>
             /\ \A i \in 2..(c - 1) : PlainEntry(text[i])
    THEN CHOOSE c \in 3..Len(text) :
             /\ text[c] = <<"-", "-", "-">>
             /\ \A i \in 2..(c - 1) : PlainEntry(text[i])
    ELSE 0

\* the body holds the raw block: its lines, delimiters included, in a row
BodyHoldsBlock(body, text) ==
    LET c == WellFormedBlock(text)
    IN  \E o \in 0..(Len(body) - c) : SubSeq(body, o + 1, o + c) = SubSeq(text, 1, c)

\* the mapping has the keys of the block's lines
PopulatedFrom(doc, text) ==
    /\ doc.hasFrontmatter
    /\ \A i \in 2..(WellFormedBlock(text) - 1) :
          \E e \in 1..Len(doc.frontmatter) :
              doc.frontmatter[e].key = KeyOfLine(text[i])

\* C14: for a Document readContentFile produced from a .md, .markdown or
\* .mdx file whose text begins with a well-formed frontmatter block, the body
\* does not contain the raw block and the mapping is populated from it
C14_BlockLeavesBody ==
    \A k \in 1..Len(loaded) :
        (/\ OnDisk(loaded[k])
         /\ MarkdownFamily(loaded[k].name)
         /\ WellFormedBlock(TextOf(loaded[k])) # 0) =>
            /\ ~BodyHoldsBlock(loaded[k].content, TextOf(loaded[k]))
            /\ PopulatedFrom(loaded[k], TextOf(loaded[k]))

\* C14 for .md and .markdown files, and what an .mdx file gets instead: no
\* mapping and the whole text as its body
C14_BlockLeavesBodyUnlessMdx ==
    \A k \in 1..Len(loaded) :
        (OnDisk(loaded[k]) /\ WellFormedBlock(TextOf(loaded[k])) # 0) =>
            IF ParsesFrontmatter(loaded[k].name)
            THEN /\ ~BodyHoldsBlock(loaded[k].content, TextOf(loaded[k]))
                 /\ PopulatedFrom(loaded[k], TextOf(loaded[k]))
            ELSE /\ ~loaded[k].hasFrontmatter
                 /\ loaded[k].content = TextOf(loaded[k])

RemoveSpaces(s) == SelectSeq(s, LAMBDA ch : ch # " ")

\* the string items of an array, written item,item,...
RECURSIVE ItemsText(_)
ItemsText(items) ==
    IF items = <<>> THEN <<>>
    ELSE IF Len(items) = 1 THEN RemoveSpaces(items[1].v)
    ELSE RemoveSpaces(items[1].v) \o <<",">> \o ItemsText(Tail(items))

\* the value is what YAML makes of the raw text: a flow sequence is an array
\* of its items, a timestamp is a Date, any other text of the files here is
\* the string extractFrontmatter gives too
YamlTyped(value, raw) ==
    IF raw[1] = "[" /\ raw[Len(raw)] = "]"
    THEN /\ value.type = "array"
         /\ \A n \in 1..Len(value.items) : value.items[n].type = "string"
         /\ <<"[">> \o ItemsText(value.items) \o <<"]">> = RemoveSpaces(raw)
    ELSE IF /\ Len(raw) = 10
            /\ \A n \in 1..10 : IF n \in {5, 8} THEN raw[n] = "-" ELSE OnlyDigits(<<raw[n]>>)
    THEN value.type = "date" /\ value.v = raw
    ELSE value = InferType(raw)

---------------------------------------------------------------------------
(* The properties of the heading extractor and the table of contents *)

HeadingsDone == tool = "extract_headings"
TocDone == tool = "generate_table_of_contents"

\* the number of '#' the line begins with
LeadingHashes(line) ==
    IF \E n \in 1..Len(line) : line[n] # "#"
    THEN (CHOOSE n \in 1..Len(line) : line[n] # "#" /\ \A m \in 1..(n - 1) : line[m] = "#") - 1
    ELSE Len(line)

\* the line consists of 1 to 6 '#', whitespace and heading text
IsHeadingLine(line) ==
    /\ LeadingHashes(line) \in 1..6
    /\ Len(line) > LeadingHashes(line) + 1
    /\ line[LeadingHashes(line) + 1] = " "
    /\ \E n \in (LeadingHashes(line) + 2)..Len(line) : line[n] # " "

\* the heading lines of the text, in document order
HeadingLinesOf(text) ==
    SelectSeq([n \in 1..Len(text) |-> n], LAMBDA n : IsHeadingLine(text[n]))

\* the line is '#' characters and nothing but whitespace behind them
IsBareHashLine(line) ==
    /\ LeadingHashes(line) \in 1..6
    /\ \A n \in (LeadingHashes(line) + 1)..Len(line) : line[n] = " "

\* headings holds one entry per heading line of the text, in order, with the
\* number of '#' as level and the trimmed remainder of that line as text
OnePerHeadingLine(found, text) ==
    LET at == HeadingLinesOf(text)
    IN  /\ Len(found) = Len(at)
        /\ \A k \in 1..Len(at) :
              /\ found[k].level = LeadingHashes(text[at[k]])
              /\ found[k].level \in 1..6
              /\ found[k].text =
                    Trim(SubSeq(text[at[k]], found[k].level + 1, Len(text[at[k]])))

\* C17: extractHeadings returns, in document order, exactly one entry per line
\* that consists of 1 to 6 '#', whitespace and heading text up to the end of
\* that line, with level the number of '#' and text the trimmed remainder of
\* the line; a line of 7 or more '#' yields no entry
C17_OnePerHeadingLine ==
    HeadingsDone => OnePerHeadingLine(headings, markdown)

\* C17 for the texts without a line of '#' alone: there the entries are the
\* heading lines
C17_OnePerHeadingLineNoBareHash ==
    (HeadingsDone /\ \A n \in 1..Len(markdown) : ~IsBareHashLine(markdown[n])) =>
        OnePerHeadingLine(headings, markdown)

\* the characters kept for an id: word characters, whitespace, hyphen
KeptForId(text) ==
    SelectSeq([n \in 1..Len(text) |-> LowerChar(text[n])],
              LAMBDA ch : ch \in WordChars \/ ch = " " \/ ch = "-")

\* the id of a text: of the kept characters each run of whitespace gives one
\* hyphen (its first character) and every other character itself
IdOf(text) ==
    LET kept == KeptForId(text)
        firsts == SelectSeq([n \in 1..Len(kept) |-> n],
                            LAMBDA n : kept[n] # " " \/ n = 1 \/ kept[n - 1] # " ")
    IN  [k \in 1..Len(firsts) |-> IF kept[firsts[k]] = " " THEN "-" ELSE kept[firsts[k]]]

\* C18: the id of every heading is its text lowercased, without the characters
\* that are not word characters, whitespace or hyphen, each run of whitespace
\* replaced by one hyphen; headings with the same text have the same id
C18_IdFromText ==
    HeadingsDone =>
        /\ \A k \in 1..Len(headings) : headings[k].id = IdOf(headings[k].text)
        /\ \A k \in 1..Len(headings) : \A l \in 1..Len(headings) :
              headings[k].text = headings[l].text => headings[k].id = headings[l].id

\* C18 witness: two headings with the same text and id, and a heading whose
\* text loses punctuation and has a run of whitespace made one hyphen
C18_Witness ==
    /\ HeadingsDone
    /\ \E k \in 1..Len(headings) : \E l \in 1..Len(headings) :
          /\ k # l
          /\ headings[k].text = headings[l].text
          /\ headings[k].id = headings[l].id
    /\ \E k \in 1..Len(headings) :
          /\ \E n \in 1..Len(headings[k].text) : headings[k].text[n] \in {"!", "&"}
          /\ \E n \in 2..Len(KeptForId(headings[k].text)) :
                KeptForId(headings[k].text)[n] = " " /\ KeptForId(headings[k].text)[n - 1] = " "
          /\ Len(headings[k].id) < Len(KeptForId(headings[k].text))

\* n spaces
Spaces(n) == [k \in 1..n |-> " "]

\* C19: generateTableOfContents returns null when extractHeadings yields no
\* heading; otherwise the title '## Table of Contents', a blank line and one
\* entry per heading, in heading order, indented by (level - 1) units of two
\* spaces and formatted '- [text](#id)'
C19_TableOfContents ==
    TocDone =>
        LET found == ExtractHeadings(markdown)
        IN  IF found = <<>> THEN toc.isNull
            ELSE /\ ~toc.isNull
                 /\ Len(toc.text) = Len(found) + 2
                 /\ toc.text[1] = TocTitle
                 /\ toc.text[2] = <<>>
                 /\ \A k \in 1..Len(found) :
                       toc.text[k + 2] =
                           Spaces(2 * (found[k].level - 1)) \o <<"-", " ", "[">>
                           \o found[k].text \o <<"]", "(", "#">> \o found[k].id \o <<")">>

\* C19 witness: a table with entries of two levels
C19_Witness ==
    /\ TocDone
    /\ ~toc.isNull
    /\ Len(toc.text) >= 4
    /\ \E k \in 3..Len(toc.text) : toc.text[k][1] = "-"
    /\ \E k \in 3..Len(toc.text) : SubSeq(toc.text[k], 1, 3) = <<" ", " ", "-">>

\* C19 witness of no table: a text with lines but no heading
C19_WitnessNull ==
    /\ TocDone
    /\ toc.isNull
    /\ Len(markdown) >= 2

---------------------------------------------------------------------------
(* The properties of findContentFiles *)

FindDone == op = "findContentFiles" /\ pc = "done"

\* the name ends with at least one of the extensions
EndsWithOneOf(name, extensions) ==
    \E i \in 1..Len(extensions) : EndsWith(name, extensions[i])

NoPathRepeated(paths) ==
    \A k \in 1..Len(paths) : \A l \in 1..Len(paths) :
        paths[k].path = paths[l].path => k = l

IsFile(entry) == entry.mode \in {"rw", "none"}

\* C20: findContentFiles returns no path twice, even when several requested
\* extensions or a repeated one match the same file; every returned path is a
\* file under the root whose name ends with a requested extension; and every
\* such file under the root is returned
C20_ExactlyTheFilesWithExtension ==
    FindDone =>
        /\ NoPathRepeated(result)
        /\ \A k \in 1..Len(result) :
              /\ IsFile(fs[result[k].path])
              /\ EndsWithOneOf(fs[result[k].path].name, args.extensions)
        /\ \A p \in Paths :
              (IsFile(fs[p]) /\ EndsWithOneOf(fs[p].name, args.extensions)) =>
                  \E k \in 1..Len(result) : result[k].path = p

\* C20 for the entries glob sees: no path twice; every returned path is an
\* entry, file or directory, whose name does not begin with '.' and ends with a
\* requested extension; and every such entry is returned
C20_ExactlyTheVisibleEntries ==
    FindDone =>
        /\ NoPathRepeated(result)
        /\ \A k \in 1..Len(result) :
              /\ fs[result[k].path].mode # "absent"
              /\ fs[result[k].path].name[1] # "."
              /\ EndsWithOneOf(fs[result[k].path].name, args.extensions)
        /\ \A p \in Paths :
              (/\ fs[p].mode # "absent"
               /\ fs[p].name[1] # "."
               /\ EndsWithOneOf(fs[p].name, args.extensions)) =>
                  \E k \in 1..Len(result) : result[k].path = p

\* a hidden note is on disk, its extension is requested, and it is not returned
C20_HiddenLeftOut ==
    /\ FindDone
    /\ \E p \in Paths :
          /\ fs[p] = FindHidden
          /\ EndsWithOneOf(fs[p].name, args.extensions)
          /\ \A k \in 1..Len(result) : result[k].path # p

---------------------------------------------------------------------------
(* The properties of a sequence of queries *)

\* the Documents a scan of the directory loads in a process that ran no query
\* before: readContentFile for every enumerated path in order, the paths that
\* reject left out; cache holds the texts whose parse threw earlier in the scan
RECURSIVE FreshLoad(_, _, _, _)
FreshLoad(disk, paths, i, cache) ==
    IF i > Len(paths) THEN <<>>
    ELSE LET text == disk[paths[i].path].text
         IN  IF ~CanReadFile(disk, paths[i].path)
             THEN FreshLoad(disk, paths, i + 1, cache)
             ELSE IF /\ ParsesFrontmatter(paths[i].name)
                     /\ MatterThrows(text)
                     /\ text \notin cache
             THEN FreshLoad(disk, paths, i + 1, cache \cup {text})
             ELSE <<ReadContentFile(disk, paths[i], text)>>
                  \o FreshLoad(disk, paths, i + 1, cache)

\* the Documents of a full rescan of the directory as it is now
FreshDocuments ==
    LET found == FindContentFiles(fs, DefaultExtensions)
    IN  FreshLoad(fs, [i \in 1..Len(found) |-> PathOf(fs, found[i])], 1, {})

\* C21: no state is carried from one query to the next: whatever files were
\* created, modified or deleted and whatever queries ran before, the result
\* of a query is the result over a full rescan of the directory as it is
\* during the query, a function of the directory and the arguments alone
C21_ResultOfRescan ==
    BulkDone => result = ResultOver(FreshDocuments)

\* C21 for the directories without a note whose frontmatter block the YAML
\* engine rejects: there the result is the result over a full rescan
C21_ResultOfRescanWellFormed ==
    (BulkDone /\ \A p \in Paths : ~MalformedFrontmatter(p)) =>
        result = ResultOver(FreshDocuments)

\* a note with a rejected block that an earlier query failed to load is in
\* the result of this query, over the same directory
C21_CarriedByParserCache ==
    /\ DatesDone
    /\ \E p \in Paths :
          /\ MalformedFrontmatter(p)
          /\ InResults(p)
          /\ \A k \in 1..Len(FreshDocuments) : FreshDocuments[k].path # p

---------------------------------------------------------------------------
(* The properties of queries that run at the same time *)

SecondDone == second.pc = "done"

\* what the second query returns when it runs alone over the documents docs
SecondResultOver(docs) ==
    IF second.op = "searchByTags"
    THEN SortByLastModified(SelectSeq(docs, LAMBDA d : HasMatchingTag(d, second.args.tags)))
    ELSE SortByLastModified(SelectSeq(docs,
             LAMBDA d : InDateRange(d, second.args.startDate, second.args.endDate)))

\* C22: queries do not interfere: of two queries that run at the same time
\* over an unchanging directory, interleaved at their awaits (enumeration,
\* read, stat), each returns the result it returns when it runs alone
C22_AsIfAlone ==
    /\ BulkDone => result = ResultOver(FreshDocuments)
    /\ SecondDone => second.result = SecondResultOver(FreshDocuments)

\* C22 for the directories without a note whose frontmatter block the YAML
\* engine rejects: there each of the two queries returns its result alone
C22_AsIfAloneWellFormed ==
    (\A p \in Paths : ~MalformedFrontmatter(p)) =>
        /\ BulkDone => result = ResultOver(FreshDocuments)
        /\ SecondDone => second.result = SecondResultOver(FreshDocuments)

\* both queries ran interleaved to the end; the first failed to load the note
\* with the rejected block and the second returned it
C22_SecondSeesFirstParse ==
    /\ BulkDone
    /\ SecondDone
    /\ second.op = "searchByDateRange"
    /\ \E p \in Paths :
          /\ MalformedFrontmatter(p)
          /\ \E f \in 1..Len(failed) : failed[f] = p
          /\ \E i \in 1..Len(second.result) : second.result[i].path = p

---------------------------------------------------------------------------
(* The properties of ranking and filtering *)

\* the Document readContentFile returns for a file of the directory
DocumentOnDisk(path) == ReadContentFile(fs, PathOf(fs, path), fs[path].text)

\* C23: ranking and filtering never modify the loaded Documents: after
\* performFuzzySearch, performExactSearch, the tag filter or the date-range
\* filter every loaded Document has the path, name, body, frontmatter,
\* lastModified and size it was loaded with, the loaded set is in the order of
\* the scan, and the returned Documents are those Documents
C23_DocumentsUntouched ==
    /\ (op = "searchNotes" /\ pc \in {"readFile", "stat", "done"}) => files = loaded
    /\ pc = "done" =>
          /\ \A k \in 1..Len(loaded) : loaded[k] = DocumentOnDisk(loaded[k].path)
          /\ \A k \in 1..Len(files) : files[k] = DocumentOnDisk(files[k].path)
          /\ \A k \in 1..Len(matchingFiles) :
                matchingFiles[k] = DocumentOnDisk(matchingFiles[k].path)
          /\ \A k \in 1..Len(loaded) : \A l \in 1..Len(loaded) :
                k < l => ScanPos(loaded[k].path) < ScanPos(loaded[l].path)
    /\ SearchDone =>
          \A i \in 1..Len(result) :
              [result[i].file EXCEPT !.content = <<>>]
                  = [DocumentOnDisk(result[i].file.path) EXCEPT !.content = <<>>]
    /\ (TagsDone \/ DatesDone) =>
          \A i \in 1..Len(result) : result[i] = DocumentOnDisk(result[i].path)

\* C23 witness: an exact search over two Documents, one with frontmatter and
\* a body of several lines, that ranked the later one first
C23_Witness ==
    /\ ExactDone
    /\ Len(files) >= 2
    /\ Len(result) >= 2
    /\ ScanPos(result[1].file.path) > ScanPos(result[2].file.path)
    /\ \E k \in 1..Len(files) : files[k].frontmatter # <<>> /\ Len(files[k].content) >= 2


\* the empty string as a body
EmptyContent == << <<>> >>

\* C24: with includeContent false the SearchResults of searchNotes carry no
\* file content: the content of every result's file is empty, under the fuzzy
\* and under the exact strategy; with includeContent true it is the full body
C24_ContentOnRequestOnly ==
    SearchDone =>
        \A i \in 1..Len(result) :
            IF args.includeContent
            THEN result[i].file.content = DocOf(result[i].file.path).content
            ELSE result[i].file.content = EmptyContent

\* under both strategies every result carries the full body, whatever
\* includeContent is
C24_ContentAlwaysIncluded ==
    SearchDone =>
        \A i \in 1..Len(result) :
            result[i].file.content = DocOf(result[i].file.path).content

\* a fuzzy and an exact result with a body although includeContent is false
C24_BodyDespiteFalse ==
    /\ SearchDone
    /\ ~args.includeContent
    /\ \E i \in 1..Len(result) : result[i].file.content # EmptyContent


\* C25: under the fuzzy strategy each returned score is 1 minus the raw
\* distance score the matcher reported for that document, the results are in
\* the matcher's best-first order, and at most maxResults (default 10) results
\* are returned
C25_FuzzyScoreInverted ==
    FuzzyDone =>
        /\ Len(result) = Len(fuseResults)
        /\ \A k \in 1..Len(result) :
              /\ result[k].score = 10 - fuseResults[k].score
              /\ result[k].file.path = fuseResults[k].item.path
              /\ fuseResults[k].item = files[fuseResults[k].refIndex]
        /\ \A i \in 1..Len(fuseResults) : \A j \in 1..Len(fuseResults) :
              i < j => /\ fuseResults[i].score <= fuseResults[j].score
                       /\ result[i].score >= result[j].score
                       /\ fuseResults[i].refIndex # fuseResults[j].refIndex
        /\ Len(result) <= OrDefault(args.maxResults)
        /\ args.maxResults >= 1 => Len(result) <= args.maxResults

\* C25 witness: as many results as maxResults allows, fewer than the files
\* searched, the best one a perfect match scanned after a worse one that
\* scores 1 - 0.3
C25_Witness ==
    /\ FuzzyDone
    /\ Len(result) = args.maxResults
    /\ Len(result) >= 2
    /\ Len(files) > Len(result)
    /\ fuseResults[1].score = 0 /\ result[1].score = 10
    /\ fuseResults[2].score = 3 /\ result[2].score = 7
    /\ fuseResults[1].refIndex > fuseResults[2].refIndex

---------------------------------------------------------------------------
(* The properties of the CallTool request handler *)

\* no directory scan and no file read was started for the request
NothingScanned ==
    /\ pc = "idle"
    /\ op = "none"
    /\ filePaths = <<>>
    /\ loaded = <<>>
    /\ failed = <<>>
    /\ content = <<>>

\* the request was answered by the catch block: isError and the message
\* behind the tool's name
AnsweredWithError ==
    /\ call.state = "responded"
    /\ call.isError
    /\ Len(call.text) = 4
    /\ call.text[1] = "Error executing tool \""
    /\ call.text[2] = call.name
    /\ call.text[3] = "\": "

\* the request was rejected as naming no tool
RejectedAsUnknown ==
    /\ call.state = "rejected"
    /\ call.text = <<"Unknown tool: ", call.name>>
    /\ NothingScanned

\* the handler's answers to the requests that name a registered tool
RegisteredAnswered ==
    call.name \in ToolNames =>
        /\ call.state # "rejected"
        /\ ~SchemaAccepts(call.name, call.arguments) => (AnsweredWithError /\ NothingScanned)
        /\ (call.state = "responded" /\ call.isError) => AnsweredWithError
        /\ call.state = "responded" => NothingScanned

C26_ErrorsAnsweredOwnNames ==
    (call.state # "none" /\ call.name \notin ObjectPrototypeNames) =>
        /\ RegisteredAnswered
        /\ call.name \notin ToolNames => RejectedAsUnknown

\* a request naming 'toString' is answered by the catch block
C26_InheritedNameAnswered ==
    /\ call.name = "toString"
    /\ AnsweredWithError
    /\ call.text[4] = NotAFunction

\* a handler that rejected (a file removed under getDirectoryStats) is answered
C26_RejectionAnswered ==
    /\ call.name = "get_directory_stats"
    /\ AnsweredWithError
    /\ call.text[4] = RejectionMessage

---------------------------------------------------------------------------
(* The properties of sanitizeHtml *)

\* the string holds a '<script ...>...</script>' element
HasScriptElement(s) == \E i \in 1..Len(s) : ScriptMatchEnd(s, i) > 0

\* the string holds 'javascript:' in some letter case
HasJavascriptProtocol(s) == \E i \in 1..Len(s) : LiteralAt(s, i, JavascriptProtocol)

Sanitized == tool = "render_markdown"

\* C27: with sanitizeHtml enabled the string the sanitization step returns
\* holds no '<script ...>...</script>' element and no 'javascript:' in any
\* letter case, for every input, also where a removal joins the text around
\* it into a new occurrence
C27_NoScriptNoProtocol ==
    Sanitized =>
        /\ ~HasScriptElement(html.sanitized)
        /\ ~HasJavascriptProtocol(html.sanitized)

\* what one pass gives: every script element and every protocol of the input
\* is gone from an output in which no removal joined anything, that is, an
\* output a second pass leaves as it is
C27_CleanWhenNothingJoined ==
    (Sanitized /\ SanitizeHtml(html.sanitized) = html.sanitized) =>
        /\ ~HasScriptElement(html.sanitized)
        /\ ~HasJavascriptProtocol(html.sanitized)

\* the removal of one 'javascript:' joined the halves around it
C27_ProtocolJoined ==
    /\ Sanitized
    /\ html.marked = Pieces(<< <<"j", "a", "v", "a">>, <<"j", "a", "v", "a">>,
                               <<"s", "C", "r", "i", "p", "t", ":">>,
                             <<"s", "C", "r", "i", "p", "t", ":">> >>)
    /\ html.sanitized = <<"j", "a", "v", "a", "s", "C", "r", "i", "p", "t", ":">>

\* the removal of an event handler attribute joined the halves of a script
\* tag after the script elements had been removed
C27_ScriptJoined ==
    /\ Sanitized
    /\ html.marked = Pieces(<< <<"<", "s", "c", "r">>,
                             <<" ", "o", "n", "x", "=", "'", "y", "'">>,
                             <<"i", "p", "t", ">">>,
                             <<"<", "/", "s", "c", "r", "i", "p", "t", ">">> >>)
    /\ HasScriptElement(html.sanitized)

\* input that held both and comes out clean
C27_Removed ==
    /\ Sanitized
    /\ HasScriptElement(html.marked)
    /\ HasJavascriptProtocol(html.marked)
    /\ html.sanitized = <<>>

---------------------------------------------------------------------------
(* The properties of the content extractFrontmatter returns *)

\* a string of \s characters
Whitespace(s) == \A i \in 1..Len(s) : s[i] \in SpaceChars

ContentShorter == tool = "extract_frontmatter" /\ extracted.content # markdown

\* the removed prefix of the text ends with line m, its closing '---' is
\* line j: line 1 opens, the lines between are the ones the mapping was read
\* from, the lines behind j are whitespace, and the content is the rest
RemovedPrefix(j, m) ==
    /\ DelimLine(markdown[1])
    /\ DelimLine(markdown[j])
    /\ extracted.frontmatter = ParseSimpleYaml(SubSeq(markdown, 2, j - 1))
    /\ Whitespace(Join(SubSeq(markdown, j + 1, m)))
    /\ Join(markdown) = Join(SubSeq(markdown, 1, m)) \o <<"\n">> \o Join(extracted.content)

\* C28: whenever extractFrontmatter detects a block, the content it returns
\* is a suffix of the text, and the prefix in front of it is the opening
\* '---' line, the metadata lines, the closing '---' line and whitespace
\* behind it: no character of the body that is not whitespace is lost and
\* nothing is added
C28_ContentIsSuffix ==
    ContentShorter =>
        \E j \in 2..(Len(markdown) - 1) : \E m \in j..(Len(markdown) - 1) : RemovedPrefix(j, m)

\* blank lines and a line of spaces behind the closing line are removed, the
\* spaces the first body line begins with are kept
C28_Witness ==
    /\ ContentShorter
    /\ markdown = << <<"-", "-", "-">>, <<"a", ":", " ", "1">>, <<"-", "-", "-">>,
                     <<>>, <<" ">>, <<" ", "x">> >>
    /\ extracted.content = << <<" ", "x">> >>

\* a '---' line behind the block stays in the content
C28_WitnessRule ==
    /\ ContentShorter
    /\ markdown = << <<"-", "-", "-">>, <<"a", ":", " ", "1">>, <<"-", "-", "-">>,
                     <<"x">>, <<"-", "-", "-">>, <<"x">> >>
    /\ extracted.content = << <<"x">>, <<"-", "-", "-">>, <<"x">> >>

---------------------------------------------------------------------------
(* The properties of a load while the file changes *)

\* the Document describes the version: its body is what readContentFile makes
\* of the version's text, its size and lastModified are the version's
Describes(doc, version) ==
    /\ doc.name = version.name
    /\ doc.content = ReadContentFile(fs, [path |-> doc.path, name |-> doc.name],
                                     version.text).content
    /\ doc.size = Size(version.text)
    /\ doc.lastModified = version.mtime

\* C29: the fields of the Document readContentFile returns describe one
\* single version of the file: size and lastModified are those of the
\* contents the body was read from, also when another process modifies the
\* file between the read of the contents and the read of the metadata
C29_OneVersion ==
    ReadOneDone =>
        \E version \in VersionPool :
            /\ version.text = content
            /\ Describes(result[1], version)

\* the returned Document has the body of the old version with the size and
\* the date of the new one
C29_BodyOldMetadataNew ==
    /\ ReadOneDone
    /\ content = PlainOld.text
    /\ result[1].content = PlainOld.text
    /\ result[1].size = Size(PlainNew.text)
    /\ result[1].lastModified = PlainNew.mtime

\* a load of the new version that nothing interrupted
C29_NewVersionLoaded ==
    /\ ReadOneDone
    /\ Describes(result[1], NoteNew)

---------------------------------------------------------------------------
(* The properties of the exit of the process *)

Exited == proc.state = "exited"

\* exit code 0 is the exit of a signal handler, behind the completed close;
\* a fault exits with code 1
ExitCodes ==
    /\ proc.exitCode = 0 => (Exited /\ proc.closed /\ proc.event \in Signals)
    /\ (Exited /\ proc.event \in Faults) => proc.exitCode = 1
    /\ Exited => proc.exitCode \in {0, 1}

\* C30: on SIGINT or SIGTERM the process exits with code 0 only after the
\* server's close has completed, and it eventually exits; on an uncaught
\* exception or unhandled rejection it exits with code 1; a tool call in
\* flight when the signal arrives cannot keep the process from exiting
C30_ExitsAfterClose ==
    /\ []ExitCodes
    /\ (proc.event \in Signals) ~> Exited
    /\ (proc.event \in Signals /\ call.state = "running") ~> Exited

\* the process exited with code 0 on SIGTERM while a tool call was in flight
C30_Witness ==
    /\ Exited
    /\ proc.event = "SIGTERM"
    /\ proc.exitCode = 0
    /\ proc.closed
    /\ call.state = "running"
    /\ pc \in {"readFile", "stat"}

\* an uncaught exception while the tool call was in flight: code 1
C30_WitnessFault ==
    /\ Exited
    /\ proc.event = "uncaughtException"
    /\ proc.exitCode = 1
    /\ call.state = "running"

====
